---------------------------- MODULE Spec2Model ----------------------------
(***************************************************************************)
(* A model of the GLIF neuron simulator of allen_wrench/model/GLIF/neuron.py *)
(* (class GLIFNeuron): the single-step dynamics, the reset rules, the        *)
(* free-run loop (run) and the target-aligned loop                           *)
(* (run_wrt_target_spike_train over run_until_spike).                        *)
(*                                                                           *)
(* Numbers.  Voltages, thresholds, currents and stimulus samples are         *)
(* integers; NaN stands for numpy's nan (the sentinel the output traces are  *)
(* pre-filled with, and any non-finite state value): arithmetic on NaN gives *)
(* NaN and every comparison with NaN is false, as in IEEE arithmetic.        *)
(* Times and interpolated values are exact rationals [n |-> , d |-> ]; a     *)
(* rational whose denominator is 0 stands for the non-finite result (inf or  *)
(* nan) numpy gives for a floating-point division by zero.                   *)
(* Arrays are functions over 0 .. len-1, as in the source; Python lists that *)
(* grow by append are sequences.                                             *)
(***************************************************************************)
EXTENDS Integers, Sequences, FiniteSets, TLC

\* ------------------------------------------------------------------ bounds
\* longest stimulus (number of samples) a call is given
MaxSteps == 3
\* largest refractory length (spike_cut_length) of a constructed neuron
MaxCut == 2

\* ------------------------------------------------------------------ values
\* np.nan
NaN == -9999
\* np.inf
Inf == 9999

IsNan(x) == x = NaN
IsInf(x) == x = Inf

Add(a, b) == IF a = NaN \/ b = NaN THEN NaN ELSE a + b
Sub(a, b) == IF a = NaN \/ b = NaN THEN NaN ELSE a - b
Mul(a, b) == IF a = NaN \/ b = NaN THEN NaN ELSE a * b
\* a > b and a < b on floats: false when either side is nan
Gt(a, b) == a # NaN /\ b # NaN /\ a > b
Lt(a, b) == a # NaN /\ b # NaN /\ a < b
Max(a, b) == IF a = NaN \/ b = NaN THEN NaN ELSE IF a > b THEN a ELSE b

\* arrays indexed from 0
Arr(n, x) == [i \in 0 .. (n - 1) |-> x]
ALen(a) == Cardinality(DOMAIN a)
\* a[lo:hi] = x, the slice clipped to the array as numpy clips it
FillSliceUnclipped(a, lo, hi, x) ==
  [i \in (DOMAIN a) \cup (lo .. (hi - 1)) |-> IF lo <= i /\ i < hi THEN x ELSE a[i]]
FillSlice(a, lo, hi, x) == [i \in DOMAIN a |-> IF lo <= i /\ i < hi THEN x ELSE a[i]]
\* a[i] = x
StoreDropped(a, i, x) == a
Store(a, i, x) == [a EXCEPT ![i] = x]

RECURSIVE SumSeq(_)
SumSeq(s) == IF Len(s) = 0 THEN 0 ELSE Add(s[1], SumSeq(Tail(s)))

AnyNan(s) == \E i \in DOMAIN s : s[i] = NaN

\* rationals: n / d, the sign carried by n; d = 0 is a non-finite value
Rat(n, d) == IF d < 0 THEN [n |-> 0 - n, d |-> 0 - d] ELSE [n |-> n, d |-> d]
RInt(x) == [n |-> x, d |-> 1]
RFinite(r) == r.d # 0
RLt(a, b) == RFinite(a) /\ RFinite(b) /\ a.n * b.d < b.n * a.d
REq(a, b) == RFinite(a) /\ RFinite(b) /\ a.n * b.d = b.n * a.d
RLe(a, b) == RLt(a, b) \/ REq(a, b)
RSub(a, b) == Rat((a.n * b.d) - (b.n * a.d), a.d * b.d)

\* ------------------------------------------------------- method library
\* The library of dynamics and reset methods (module neuron_methods) is not
\* part of the sources at hand; the methods below are integer renderings of
\* the kinds the specification names (linear voltage integration, fixed or
\* adapting threshold, decaying after-spike currents, reset to a fixed value
\* or to a scaling of the pre-reset value).
METHOD_LIBRARY ==
  [ AScurrent_dynamics_method |-> {"exp", "none", "vector"},
    voltage_dynamics_method   |-> {"linear"},
    threshold_dynamics_method |-> {"fixed", "adapt"},
    AScurrent_reset_method    |-> {"sum", "none"},
    voltage_reset_method      |-> {"zero", "v_before", "fixed"},
    threshold_reset_method    |-> {"max_v_th", "th_before", "fixed"} ]

\* after-spike-current dynamics: (neuron, prior currents, step, spike steps)
AScurrent_dynamics_method(n, AScurrents_t0, time_step, spike_time_steps) ==
  CASE n.AScurrent_dynamics_method.name = "none" ->
         [i \in DOMAIN AScurrents_t0 |-> Mul(AScurrents_t0[i], 0)]
    [] n.AScurrent_dynamics_method.name = "exp" ->
         [i \in DOMAIN AScurrents_t0 |->
            IF AScurrents_t0[i] = NaN THEN NaN
            ELSE AScurrents_t0[i] - (AScurrents_t0[i] \div n.tau[i])]
    [] n.AScurrent_dynamics_method.name = "vector" ->
         [i \in DOMAIN AScurrents_t0 |->
            IF \E k \in DOMAIN spike_time_steps : spike_time_steps[k] = time_step
            THEN Add(AScurrents_t0[i], n.asc_vector[i])
            ELSE AScurrents_t0[i]]

\* voltage dynamics: (neuron, prior voltage, prior currents, injected current)
voltage_dynamics_method(n, voltage_t0, AScurrents_t0, inj) ==
  Sub(Add(Add(voltage_t0, inj), SumSeq(AScurrents_t0)),
      Mul(n.G, Sub(voltage_t0, n.El)))

\* threshold dynamics: (neuron, prior threshold, prior voltage)
threshold_dynamics_method(n, threshold_t0, voltage_t0) ==
  CASE n.threshold_dynamics_method.name = "fixed" ->
         Add(threshold_t0, Mul(0, voltage_t0))
    [] n.threshold_dynamics_method.name = "adapt" ->
         Sub(Add(threshold_t0, Mul(n.threshold_dynamics_method.params.a, Sub(voltage_t0, n.El))),
             Mul(n.threshold_dynamics_method.params.b, Sub(threshold_t0, n.th_inf)))

\* after-spike-current reset: (neuron, pre-reset currents, step)
AScurrent_reset_method(n, AScurrents_t0, t) ==
  CASE n.AScurrent_reset_method.name = "none" -> AScurrents_t0
    [] n.AScurrent_reset_method.name = "sum" ->
         [i \in DOMAIN AScurrents_t0 |-> Add(AScurrents_t0[i], n.asc_vector[i])]

\* voltage reset: (neuron, pre-reset voltage)
voltage_reset_method(n, voltage_t0) ==
  CASE n.voltage_reset_method.name = "zero" -> Mul(0, voltage_t0)
    [] n.voltage_reset_method.name = "v_before" ->
         Add(Mul(n.voltage_reset_method.params.a, voltage_t0), n.voltage_reset_method.params.b)
    [] n.voltage_reset_method.name = "fixed" ->
         Add(n.voltage_reset_method.params.value, Mul(0, voltage_t0))

\* threshold reset: (neuron, pre-reset threshold, post-reset voltage)
threshold_reset_method(n, threshold_t0, voltage_v1) ==
  CASE n.threshold_reset_method.name = "max_v_th" ->
         Max(threshold_t0, Add(voltage_v1, n.threshold_reset_method.params.delta))
    [] n.threshold_reset_method.name = "th_before" ->
         Add(threshold_t0, n.threshold_reset_method.params.delta)
    [] n.threshold_reset_method.name = "fixed" ->
         Add(n.threshold_reset_method.params.value, Mul(0, threshold_t0))


\* a method configuration {name, params} as the constructor receives it
Method(name, a, b, delta, value) ==
  [name |-> name, params |-> [a |-> a, b |-> b, delta |-> delta, value |-> value]]

\* ------------------------------------------------------------ the neuron
\* GLIFNeuron.__init__: the fields a constructed neuron holds.  The neurons
\* below are the configurations the model is run with: a plain leaky
\* integrator without after-spike currents, an adapting neuron with one
\* after-spike current, and two neurons whose reset rules leave the voltage
\* at or above the threshold.
NeuronLIF(cut) ==
  [ El |-> 0, dt |-> 2, tau |-> <<>>, asc_vector |-> <<>>, G |-> 0,
    spike_cut_length |-> cut, th_inf |-> 2,
    AScurrent_dynamics_method |-> Method("none", 0, 0, 0, 0),
    voltage_dynamics_method   |-> Method("linear", 0, 0, 0, 0),
    threshold_dynamics_method |-> Method("fixed", 0, 0, 0, 0),
    AScurrent_reset_method    |-> Method("none", 0, 0, 0, 0),
    voltage_reset_method      |-> Method("zero", 0, 0, 0, 0),
    threshold_reset_method    |-> Method("th_before", 0, 0, 0, 0) ]

NeuronAdapt(cut) ==
  [ El |-> 0, dt |-> 1, tau |-> <<2>>, asc_vector |-> <<1>>, G |-> 0,
    spike_cut_length |-> cut, th_inf |-> 2,
    AScurrent_dynamics_method |-> Method("exp", 0, 0, 0, 0),
    voltage_dynamics_method   |-> Method("linear", 0, 0, 0, 0),
    threshold_dynamics_method |-> Method("adapt", 0, 1, 0, 0),
    AScurrent_reset_method    |-> Method("sum", 0, 0, 0, 0),
    voltage_reset_method      |-> Method("v_before", 1, -2, 0, 0),
    threshold_reset_method    |-> Method("max_v_th", 0, 0, 1, 0) ]

NeuronStuck(cut) ==
  [ El |-> 0, dt |-> 2, tau |-> <<2>>, asc_vector |-> <<1>>, G |-> 0,
    spike_cut_length |-> cut, th_inf |-> 2,
    AScurrent_dynamics_method |-> Method("vector", 0, 0, 0, 0),
    voltage_dynamics_method   |-> Method("linear", 0, 0, 0, 0),
    threshold_dynamics_method |-> Method("fixed", 0, 0, 0, 0),
    AScurrent_reset_method    |-> Method("sum", 0, 0, 0, 0),
    voltage_reset_method      |-> Method("v_before", 1, -2, 0, 0),
    threshold_reset_method    |-> Method("th_before", 0, 0, 0, 0) ]

NeuronLevel(cut) ==
  [ El |-> 0, dt |-> 2, tau |-> <<>>, asc_vector |-> <<>>, G |-> 0,
    spike_cut_length |-> cut, th_inf |-> 2,
    AScurrent_dynamics_method |-> Method("none", 0, 0, 0, 0),
    voltage_dynamics_method   |-> Method("linear", 0, 0, 0, 0),
    threshold_dynamics_method |-> Method("fixed", 0, 0, 0, 0),
    AScurrent_reset_method    |-> Method("none", 0, 0, 0, 0),
    voltage_reset_method      |-> Method("fixed", 0, 0, 0, 2),
    threshold_reset_method    |-> Method("fixed", 0, 0, 0, 2) ]

Neurons ==
  UNION { {NeuronLIF(c), NeuronAdapt(c), NeuronStuck(c), NeuronLevel(c)} : c \in 0 .. MaxCut }

\* ------------------------------------------------------------- dynamics
\* GLIFNeuron.dynamics: the three dynamics methods, each on the prior state
DynamicsOnUpdatedState(n, voltage_t0, threshold_t0, AScurrents_t0, inj, time_step, spike_time_steps) ==
  LET AScurrents_t1 == AScurrent_dynamics_method(n, AScurrents_t0, time_step, spike_time_steps)
      voltage_t1    == voltage_dynamics_method(n, voltage_t0, AScurrents_t1, inj)
      threshold_t1  == threshold_dynamics_method(n, threshold_t0, voltage_t1)
  IN  [ voltage |-> voltage_t1, threshold |-> threshold_t1, AScurrents |-> AScurrents_t1 ]
Dynamics(n, voltage_t0, threshold_t0, AScurrents_t0, inj, time_step, spike_time_steps) ==
  [ voltage    |-> voltage_dynamics_method(n, voltage_t0, AScurrents_t0, inj),
    threshold  |-> threshold_dynamics_method(n, threshold_t0, voltage_t0),
    AScurrents |-> AScurrent_dynamics_method(n, AScurrents_t0, time_step, spike_time_steps) ]

\* ---------------------------------------------------------------- reset
\* the assertion of GLIFNeuron.reset
ResetAssertLe(voltage_v1, threshold_v1) == ~ Gt(voltage_v1, threshold_v1) /\ voltage_v1 # NaN /\ threshold_v1 # NaN
ResetAssert(voltage_v1, threshold_v1) == Lt(voltage_v1, threshold_v1)

\* GLIFNeuron.reset: currents, then voltage, then threshold (on the reset
\* voltage); ok tells whether the assertion passed, i.e. whether the call
\* returned or raised
ResetOnPreResetVoltage(n, voltage_t0, threshold_t0, AScurrents_t0, t) ==
  LET AScurrents_t1 == AScurrent_reset_method(n, AScurrents_t0, t)
      voltage_t1    == voltage_reset_method(n, voltage_t0)
      threshold_t1  == threshold_reset_method(n, threshold_t0, voltage_t0)
  IN  [ voltage |-> voltage_t1, threshold |-> threshold_t1, AScurrents |-> AScurrents_t1,
        ok |-> ResetAssert(voltage_t1, threshold_t1) ]
Reset(n, voltage_t0, threshold_t0, AScurrents_t0, t) ==
  LET AScurrents_t1 == AScurrent_reset_method(n, AScurrents_t0, t)
      voltage_t1    == voltage_reset_method(n, voltage_t0)
      threshold_t1  == threshold_reset_method(n, threshold_t0, voltage_t1)
  IN  [ voltage |-> voltage_t1, threshold |-> threshold_t1, AScurrents |-> AScurrents_t1,
        ok |-> ResetAssert(voltage_t1, threshold_t1) ]

\* ------------------------------------------------------------------ state
VARIABLES
  neuron,            \* the constructed GLIFNeuron
  call,              \* the method being executed: "none", "run", "run_wrt_target_spike_train"
  pc,                \* where the call stands
  args,              \* the arguments of the call
  time_step,         \* loop index of run and of run_until_spike
  voltage_t0, threshold_t0, AScurrents_t0,     \* the carried state
  voltage_out, threshold_out, AScurrents_out,  \* traces of run / of one run_until_spike segment
  spike_time_steps, spike_times, interpolated_spike_times,
  interpolated_spike_voltages, interpolated_spike_thresholds,  \* run's spike lists
  voltage, threshold, AScurrent_matrix,   \* traces of run_wrt_target_spike_train
  per_spike,         \* the per-spike output arrays of run_wrt_target_spike_train
  segment,           \* which call of run_until_spike is under way: "only", "target", "trailing"
  spike_num,         \* index of the target spike whose segment is run
  start_index, end_index,   \* the segment of the stimulus run_until_spike is given
  dyn_log,           \* history: every call of dynamics, in order
  reset_log,         \* history: every call of reset, in order
  write_count        \* history: how often each index of the full-length traces was assigned

runvars == << time_step, voltage_t0, threshold_t0, AScurrents_t0,
              voltage_out, threshold_out, AScurrents_out,
              spike_time_steps, spike_times, interpolated_spike_times,
              interpolated_spike_voltages, interpolated_spike_thresholds >>

wrtvars == << voltage, threshold, AScurrent_matrix, per_spike, segment, spike_num,
              start_index, end_index, write_count >>

vars == << neuron, call, pc, args, runvars, wrtvars, dyn_log, reset_log >>

\* ------------------------------------------------------------- inputs
StimVals == {0, 2}
Stimuli == UNION { [0 .. (len - 1) -> StimVals] : len \in 0 .. MaxSteps }
InitialVoltages == {0, 1, 3, NaN}
InitialThresholds == {2}
AscVals == {0, 1}
InitialAScurrents(n) == [1 .. Len(n.tau) -> AscVals]

NoArgs ==
  [ voltage_t0 |-> 0, threshold_t0 |-> 0, AScurrents_t0 |-> <<>>, stim |-> <<>>,
    spike_train_ids |-> <<>>, target_spike_exists |-> FALSE, interpolated_spike_times |-> <<>> ]

\* the record dynamics was called with
DynCall(step, v, th, asc, inj, spikes) ==
  [ time_step |-> step, voltage_t0 |-> v, threshold_t0 |-> th, AScurrents_t0 |-> asc,
    inj |-> inj, spike_time_steps |-> spikes ]

\* the record of one reset call: the stimulus index it is made at, what it was
\* given and what it computed
ResetCall(at, t, v, th, asc, r) ==
  [ at |-> at, t |-> t, voltage_t0 |-> v, threshold_t0 |-> th, AScurrents_t0 |-> asc,
    voltage_t1 |-> r.voltage, threshold_t1 |-> r.threshold, AScurrents_t1 |-> r.AScurrents,
    ok |-> r.ok ]

\* the nine per-spike arrays, each of the given length and contents
PerSpikeOneMore(len, x) ==
  [ interpolatedTimeArray |-> Arr(len + 1, x),
    interpolatedVoltageArray |-> Arr(len + 1, x),
    gridTimeArray |-> Arr(len + 1, x),
    gridISIFromLastTargSpike_array |-> Arr(len + 1, x),
    interpolatedISIFromLastTargSpike_array |-> Arr(len + 1, x),
    voltageOfModelAtGridBioSpike_array |-> Arr(len + 1, x),
    threshOfModelAtGridBioSpike_array |-> Arr(len + 1, x),
    v_ofModelAtInterpolatedBioSpike_array |-> Arr(len + 1, x),
    thresh_ofModelAtInterpolatedBioSpike_array |-> Arr(len + 1, x) ]

PerSpike(len, x) ==
  [ interpolatedTimeArray |-> Arr(len, x),
    interpolatedVoltageArray |-> Arr(len, x),
    gridTimeArray |-> Arr(len, x),
    gridISIFromLastTargSpike_array |-> Arr(len, x),
    interpolatedISIFromLastTargSpike_array |-> Arr(len, x),
    voltageOfModelAtGridBioSpike_array |-> Arr(len, x),
    threshOfModelAtGridBioSpike_array |-> Arr(len, x),
    v_ofModelAtInterpolatedBioSpike_array |-> Arr(len, x),
    thresh_ofModelAtInterpolatedBioSpike_array |-> Arr(len, x) ]

\* np.empty: an entry not assigned yet (its content is arbitrary); no value the
\* program computes has a negative denominator
Unassigned == [n |-> 0, d |-> 0 - 1]

NoPerSpike == PerSpike(0, Unassigned)

Init ==
  /\ neuron \in Neurons
  /\ call = "none"
  /\ pc = "idle"
  /\ args = NoArgs
  /\ time_step = 0
  /\ voltage_t0 = 0 /\ threshold_t0 = 0 /\ AScurrents_t0 = <<>>
  /\ voltage_out = <<>> /\ threshold_out = <<>> /\ AScurrents_out = <<>>
  /\ spike_time_steps = <<>> /\ spike_times = <<>> /\ interpolated_spike_times = <<>>
  /\ interpolated_spike_voltages = <<>> /\ interpolated_spike_thresholds = <<>>
  /\ voltage = <<>> /\ threshold = <<>> /\ AScurrent_matrix = <<>>
  /\ per_spike = NoPerSpike
  /\ segment = "none" /\ spike_num = 0 /\ start_index = 0 /\ end_index = 0
  /\ dyn_log = <<>>
  /\ reset_log = <<>>
  /\ write_count = <<>>

\* ----------------------------------------------------------- run (free run)
\* run, line 215: the spike time interpolated between the pre-step and the
\* post-step (voltage, threshold) pairs
InterpolatedSpikeTime(dt, step, v0, th0, v1, th1) ==
  IF v0 = NaN \/ th0 = NaN \/ v1 = NaN \/ th1 = NaN THEN Rat(0, 0)
  ELSE LET den == ((v1 - th1) - v0) + th0
       IN  Rat(dt * ((step * den) + (th0 - v0)), den)

\* run, lines 216-217: x0 + (x1 - x0) * (t - (step - 1) * dt) / dt
InterpolatedSpikeValue(dt, step, x0, x1, t) ==
  IF x0 = NaN \/ x1 = NaN \/ ~ RFinite(t) THEN Rat(0, 0)
  ELSE Rat((x0 * t.d * dt) + ((x1 - x0) * (t.n - ((step - 1) * dt * t.d))), t.d * dt)

\* a row of the after-spike-current trace holding the sentinel
NanRow(num_AScurrents) == [i \in 1 .. num_AScurrents |-> NaN]

\* run, lines 166-184: the call, its pre-allocated traces and empty spike lists
CallRun ==
  /\ pc = "idle"
  /\ \E v \in InitialVoltages, th \in InitialThresholds,
        asc \in InitialAScurrents(neuron), stim \in Stimuli :
       /\ args' = [NoArgs EXCEPT !.voltage_t0 = v, !.threshold_t0 = th,
                                 !.AScurrents_t0 = asc, !.stim = stim]
       /\ voltage_t0' = v /\ threshold_t0' = th /\ AScurrents_t0' = asc
       /\ voltage_out' = Arr(ALen(stim), NaN)
       /\ threshold_out' = Arr(ALen(stim), NaN)
       /\ AScurrents_out' = Arr(ALen(stim), NanRow(Len(asc)))
  /\ call' = "run"
  /\ pc' = "run_loop"
  /\ time_step' = 0
  /\ spike_time_steps' = <<>> /\ spike_times' = <<>> /\ interpolated_spike_times' = <<>>
  /\ interpolated_spike_voltages' = <<>> /\ interpolated_spike_thresholds' = <<>>
  /\ UNCHANGED << neuron, wrtvars, dyn_log, reset_log >>

\* what dynamics returns at the current step of run (line 190)
RunDynamicsOnClearedStimulus ==
  Dynamics(neuron, voltage_t0, threshold_t0, AScurrents_t0,
           IF spike_time_steps # <<>> THEN 0 ELSE args.stim[time_step], time_step, spike_time_steps)
RunDynamics ==
  Dynamics(neuron, voltage_t0, threshold_t0, AScurrents_t0,
           args.stim[time_step], time_step, spike_time_steps)

RunDynCall ==
  DynCall(time_step, voltage_t0, threshold_t0, AScurrents_t0, args.stim[time_step], spike_time_steps)

\* run, line 193: the crossing test
SpikeDetectedGe(voltage_v1, threshold_v1) == ~ Lt(voltage_v1, threshold_v1) /\ voltage_v1 # NaN /\ threshold_v1 # NaN
SpikeDetected(voltage_v1, threshold_v1) == Gt(voltage_v1, threshold_v1)

\* run, lines 237-247: no spike at this step
RunStepNoSpike ==
  /\ pc = "run_loop" /\ call = "run"
  /\ time_step < ALen(args.stim)
  /\ \E d \in {RunDynamics} :
         /\ ~ SpikeDetected(d.voltage, d.threshold)
         /\ voltage_out' = Store(voltage_out, time_step, d.voltage)
         /\ threshold_out' = Store(threshold_out, time_step, d.threshold)
         /\ AScurrents_out' = Store(AScurrents_out, time_step, d.AScurrents)
         /\ voltage_t0' = d.voltage
         /\ threshold_t0' = d.threshold
         /\ AScurrents_t0' = d.AScurrents
  /\ time_step' = time_step + 1
  /\ dyn_log' = Append(dyn_log, RunDynCall)
  /\ UNCHANGED << neuron, call, pc, args, spike_time_steps, spike_times, interpolated_spike_times,
                  interpolated_spike_voltages, interpolated_spike_thresholds, reset_log, wrtvars >>

\* run, lines 210-217: the spike is recorded in the five lists
RunRecordSpikeAtNextGridPoint(d) ==
  \E t \in {InterpolatedSpikeTime(neuron.dt, time_step, voltage_t0, threshold_t0, d.voltage, d.threshold)} :
      /\ spike_time_steps' = Append(spike_time_steps, time_step)
      /\ spike_times' = Append(spike_times, (time_step + 1) * neuron.dt)
      /\ interpolated_spike_times' = Append(interpolated_spike_times, t)
      /\ interpolated_spike_voltages' =
           Append(interpolated_spike_voltages,
                  InterpolatedSpikeValue(neuron.dt, time_step, voltage_t0, d.voltage, t))
      /\ interpolated_spike_thresholds' =
           Append(interpolated_spike_thresholds,
                  InterpolatedSpikeValue(neuron.dt, time_step, threshold_t0, d.threshold, t))
RunRecordSpike(d) ==
  \E t \in {InterpolatedSpikeTime(neuron.dt, time_step, voltage_t0, threshold_t0, d.voltage, d.threshold)} :
      /\ spike_time_steps' = Append(spike_time_steps, time_step)
      /\ spike_times' = Append(spike_times, time_step * neuron.dt)
      /\ interpolated_spike_times' = Append(interpolated_spike_times, t)
      /\ interpolated_spike_voltages' =
           Append(interpolated_spike_voltages,
                  InterpolatedSpikeValue(neuron.dt, time_step, voltage_t0, d.voltage, t))
      /\ interpolated_spike_thresholds' =
           Append(interpolated_spike_thresholds,
                  InterpolatedSpikeValue(neuron.dt, time_step, threshold_t0, d.threshold, t))

\* run, lines 185-215, from step on with an empty spike list: the first spike
\* the loop finds (its step, grid time and interpolated time), if it finds one
RECURSIVE RunToFirstSpike(_, _, _, _, _, _)
RunToFirstSpike(n, v, th, asc, stim, step) ==
  IF ~ (step < ALen(stim))
  THEN [ spiked |-> FALSE, spike_time_step |-> step, spike_time |-> 0,
         interpolated_spike_time |-> Rat(0, 0) ]
  ELSE LET d == Dynamics(n, v, th, asc, stim[step], step, <<>>)
       IN  IF SpikeDetected(d.voltage, d.threshold)
           THEN [ spiked |-> TRUE, spike_time_step |-> step, spike_time |-> step * n.dt,
                  interpolated_spike_time |->
                    InterpolatedSpikeTime(n.dt, step, v, th, d.voltage, d.threshold) ]
           ELSE RunToFirstSpike(n, d.voltage, d.threshold, d.AScurrents, stim, step + 1)

\* run, line 229: the step index after a spike with refractory samples
StepAfterCutByOne(step, n) == step + 1
StepAfterCut(step, n) == step + n

\* run, lines 232-234: what is stored at the spike step when the model
\* integrates during the spike; d is the output of dynamics, r that of reset
SampleAtSpikePreReset(d, r) == d
SampleAtSpike(d, r) == r

\* run, lines 193-229: a spike, the reset, and the refractory samples blanked
RunStepSpikeCut ==
  /\ pc = "run_loop" /\ call = "run"
  /\ time_step < ALen(args.stim)
  /\ neuron.spike_cut_length > 0
  /\ \E d \in {RunDynamics} :
     \E r \in {Reset(neuron, d.voltage, d.threshold, d.AScurrents, time_step)} :
     LET n == neuron.spike_cut_length
     IN  /\ SpikeDetected(d.voltage, d.threshold)
         /\ r.ok
         /\ RunRecordSpike(d)
         /\ voltage_t0' = r.voltage /\ threshold_t0' = r.threshold /\ AScurrents_t0' = r.AScurrents
         /\ voltage_out' = FillSlice(voltage_out, time_step, time_step + n, NaN)
         /\ threshold_out' = FillSlice(threshold_out, time_step, time_step + n, NaN)
         /\ AScurrents_out' = FillSlice(AScurrents_out, time_step, time_step + n,
                                        NanRow(Len(AScurrents_t0)))
         /\ time_step' = StepAfterCut(time_step, neuron.spike_cut_length)
         /\ reset_log' = Append(reset_log, ResetCall(time_step, time_step, d.voltage, d.threshold, d.AScurrents, r))
  /\ dyn_log' = Append(dyn_log, RunDynCall)
  /\ UNCHANGED << neuron, call, pc, args, wrtvars >>

\* run, lines 193-220 and 230-236: a spike, the reset, and the reset values stored
RunStepSpikeStore ==
  /\ pc = "run_loop" /\ call = "run"
  /\ time_step < ALen(args.stim)
  /\ ~ (neuron.spike_cut_length > 0)
  /\ \E d \in {RunDynamics} :
     \E r \in {Reset(neuron, d.voltage, d.threshold, d.AScurrents, time_step)} :
         /\ SpikeDetected(d.voltage, d.threshold)
         /\ r.ok
         /\ RunRecordSpike(d)
         /\ voltage_t0' = r.voltage /\ threshold_t0' = r.threshold /\ AScurrents_t0' = r.AScurrents
         /\ voltage_out' = Store(voltage_out, time_step, SampleAtSpike(d, r).voltage)
         /\ threshold_out' = Store(threshold_out, time_step, SampleAtSpike(d, r).threshold)
         /\ AScurrents_out' = Store(AScurrents_out, time_step, SampleAtSpike(d, r).AScurrents)
         /\ time_step' = time_step + 1
         /\ reset_log' = Append(reset_log, ResetCall(time_step, time_step, d.voltage, d.threshold, d.AScurrents, r))
  /\ dyn_log' = Append(dyn_log, RunDynCall)
  /\ UNCHANGED << neuron, call, pc, args, wrtvars >>

\* run, lines 193-220: a spike whose reset raises (the assertion of reset)
RunStepResetFails ==
  /\ pc = "run_loop" /\ call = "run"
  /\ time_step < ALen(args.stim)
  /\ \E d \in {RunDynamics} :
     \E r \in {Reset(neuron, d.voltage, d.threshold, d.AScurrents, time_step)} :
         /\ SpikeDetected(d.voltage, d.threshold)
         /\ ~ r.ok
         /\ RunRecordSpike(d)
         /\ reset_log' = Append(reset_log, ResetCall(time_step, time_step, d.voltage, d.threshold, d.AScurrents, r))
  /\ dyn_log' = Append(dyn_log, RunDynCall)
  /\ pc' = "failed"
  /\ UNCHANGED << neuron, call, args, time_step, voltage_t0, threshold_t0, AScurrents_t0,
                  voltage_out, threshold_out, AScurrents_out, wrtvars >>

\* run, lines 185 and 249: the loop ends and the traces and lists are returned
RunReturn ==
  /\ pc = "run_loop" /\ call = "run"
  /\ ~ (time_step < ALen(args.stim))
  /\ pc' = "done"
  /\ UNCHANGED << neuron, call, args, runvars, wrtvars, dyn_log, reset_log >>

\* ------------------------------------- run_wrt_target_spike_train
\* the target trains a call is given: the increasing trains over the indices
\* 0 .. len(stim), and the pairs that repeat an index or step back
RECURSIVE SortedSeq(_)
SortedSeq(S) ==
  IF S = {} THEN <<>>
  ELSE LET m == CHOOSE x \in S : \A y \in S : x <= y
       IN  <<m>> \o SortedSeq(S \ {m})

\* an array (indexed from 0) holding the members of a sequence
ArrOf(q) == [i \in 0 .. (Len(q) - 1) |-> q[i + 1]]

TargetTrains(len) ==
  { ArrOf(SortedSeq(S)) : S \in SUBSET (0 .. len) }
    \cup UNION { { ArrOf(<<i, j>>) : j \in 0 .. i } : i \in 0 .. len }

\* the initial thresholds, after-spike currents and stimuli a target-aligned
\* run is given: those of a free run, and ones that hold a value that is not
\* a finite number
TargetRunThresholds == InitialThresholds \cup {Inf}
TargetRunAScurrents(n) == [1 .. Len(n.tau) -> AscVals \cup {NaN}]
TargetRunStimuli ==
  Stimuli \cup UNION { { [i \in 0 .. (len - 1) |-> IF i = k THEN NaN ELSE 2] : k \in 0 .. (len - 1) } :
                        len \in 1 .. MaxSteps }

\* how far before its grid point a target spike's interpolated time lies
TargetOffsets == {RInt(0), Rat(1, 2), RInt(1)}

\* lines 300-301: the time of each target spike from the grid point before it
DeltaTWrtGridRightBeforeSpike(dt, spike_train_ids, interpolated) ==
  [k \in DOMAIN spike_train_ids |-> RSub(interpolated[k], RInt((spike_train_ids[k] - 1) * dt))]

\* int(x) of line 373: the integer part of x, towards zero
IntOf(x) == IF x.n >= 0 THEN x.n \div x.d ELSE 0 - ((0 - x.n) \div x.d)

\* a[lo:hi] = vals, for a slice that has the length of vals
AssignSlice(a, lo, hi, vals) ==
  [i \in DOMAIN a |-> IF lo <= i /\ i < hi THEN vals[i - lo] ELSE a[i]]

CountSlice(w, lo, hi) ==
  [i \in DOMAIN w |-> IF lo <= i /\ i < hi THEN w[i] + 1 ELSE w[i]]

\* a[i] with Python's negative indices
Idx(a, i) == IF i < 0 THEN a[ALen(a) + i] ELSE a[i]

\* lines 305 and 337: the assertions on target_spike_exists
FlagAgreesUnlessEmpty(num_spikes, target_spike_exists) ==
  num_spikes = 0 \/ target_spike_exists = TRUE
FlagAgrees(num_spikes, target_spike_exists) ==
  IF num_spikes = 0 THEN target_spike_exists = FALSE ELSE target_spike_exists = TRUE

\* lines 297-305 and 337-362: the assertions on target_spike_exists, the
\* output arrays, and the first call of run_until_spike.  The target-aligned
\* run never reads spike_cut_length, so it is called on the neurons of one
\* refractory length.
CallWrt ==
  /\ pc = "idle"
  /\ neuron.spike_cut_length = 0
  /\ \E v \in InitialVoltages, th \in TargetRunThresholds,
        asc \in TargetRunAScurrents(neuron), stim \in TargetRunStimuli, exists \in BOOLEAN,
        off \in TargetOffsets :
       \E ids \in TargetTrains(ALen(stim)) :
         LET num_spikes == ALen(ids)
             interpolated == [k \in DOMAIN ids |-> RSub(RInt(ids[k] * neuron.dt), off)]
         IN  /\ args' = [ voltage_t0 |-> v, threshold_t0 |-> th, AScurrents_t0 |-> asc,
                          stim |-> stim, spike_train_ids |-> ids,
                          target_spike_exists |-> exists,
                          interpolated_spike_times |-> interpolated ]
             /\ voltage_t0' = v /\ threshold_t0' = th /\ AScurrents_t0' = asc
             /\ IF num_spikes = 0
                THEN /\ pc' = IF FlagAgrees(num_spikes, exists) THEN "run_until_spike" ELSE "failed"
                     /\ segment' = "only"
                     /\ start_index' = 0
                     /\ end_index' = ALen(stim) - 1
                     /\ UNCHANGED << voltage, threshold, AScurrent_matrix, per_spike, write_count >>
                ELSE /\ pc' = IF FlagAgrees(num_spikes, exists) THEN "run_until_spike" ELSE "failed"
                     /\ segment' = "target"
                     /\ start_index' = 0
                     /\ end_index' = ids[0]
                     /\ IF FlagAgrees(num_spikes, exists)
                        THEN /\ per_spike' = PerSpike(num_spikes, Unassigned)
                             /\ voltage' = Arr(ALen(stim), NaN)
                             /\ threshold' = Arr(ALen(stim), NaN)
                             /\ AScurrent_matrix' = Arr(ALen(stim), NanRow(Len(asc)))
                             /\ write_count' = Arr(ALen(stim), 0)
                        ELSE UNCHANGED << voltage, threshold, AScurrent_matrix, per_spike,
                                          write_count >>
  /\ call' = "run_wrt_target_spike_train"
  /\ spike_num' = 0
  /\ UNCHANGED << neuron, time_step, voltage_out, threshold_out, AScurrents_out,
                  spike_time_steps, spike_times, interpolated_spike_times,
                  interpolated_spike_voltages, interpolated_spike_thresholds,
                  dyn_log, reset_log >>

\* ------------------------------------------------------ run_until_spike
\* line 487 with a segment of no step padded to one step where the stimulus has one
num_time_steps_padded ==
  IF end_index = start_index /\ end_index < ALen(args.stim) THEN 1 ELSE end_index - start_index
num_time_steps == end_index - start_index

\* the spike steps handed to dynamics: [] without targets, else the target train
SegmentSpikeTimeSteps ==
  IF segment = "only" THEN <<>> ELSE [k \in 1 .. ALen(args.spike_train_ids) |-> args.spike_train_ids[k - 1]]

\* the sub-step offset handed to run_until_spike (lines 312, 373, 405)
SegmentDelta ==
  IF segment = "target"
  THEN IntOf(DeltaTWrtGridRightBeforeSpike(neuron.dt, args.spike_train_ids,
                                           args.interpolated_spike_times)[spike_num])
  ELSE neuron.dt

\* lines 484-497: the traces of the segment; np.empty raises on a negative length
RunUntilSpikeEnter ==
  /\ pc = "run_until_spike"
  /\ IF num_time_steps < 0
     THEN /\ pc' = "failed"
          /\ UNCHANGED << voltage_out, threshold_out, AScurrents_out, time_step >>
     ELSE /\ pc' = "run_until_spike_loop"
          /\ voltage_out' = Arr(num_time_steps, NaN)
          /\ threshold_out' = Arr(num_time_steps, NaN)
          /\ AScurrents_out' = Arr(num_time_steps, NanRow(Len(AScurrents_t0)))
          /\ time_step' = 0
  /\ UNCHANGED << neuron, call, args, voltage_t0, threshold_t0, AScurrents_t0,
                  spike_time_steps, spike_times, interpolated_spike_times,
                  interpolated_spike_voltages, interpolated_spike_thresholds,
                  wrtvars, dyn_log, reset_log >>

\* line 500: the loop over the steps of the segment has run to its end
SegmentIntegratedOrCrossed ==
  \/ ~ (time_step < num_time_steps)
  \/ (time_step > 0 /\ Gt(voltage_t0, threshold_t0))
SegmentIntegrated == ~ (time_step < num_time_steps)

\* line 506: the state just recorded is not a finite number
InvalidVoltage(v, th, asc) == IsNan(v) \/ IsInf(v)
InvalidState(v, th, asc) ==
  \/ IsNan(v) \/ IsInf(v)
  \/ IsNan(th) \/ IsInf(th)
  \/ AnyNan(asc) \/ (\E i \in DOMAIN asc : IsInf(asc[i]))

\* lines 500-522: one step of the segment: the state is recorded, checked,
\* and advanced by dynamics
RunUntilSpikeStep ==
  /\ pc = "run_until_spike_loop"
  /\ ~ SegmentIntegrated
  /\ voltage_out' = Store(voltage_out, time_step, voltage_t0)
  /\ threshold_out' = Store(threshold_out, time_step, threshold_t0)
  /\ AScurrents_out' = Store(AScurrents_out, time_step, AScurrents_t0)
  /\ IF InvalidState(voltage_t0, threshold_t0, AScurrents_t0)
     THEN /\ pc' = "failed"
          /\ UNCHANGED << voltage_t0, threshold_t0, AScurrents_t0, time_step, dyn_log >>
     ELSE LET d == Dynamics(neuron, voltage_t0, threshold_t0, AScurrents_t0,
                            args.stim[time_step + start_index], time_step + start_index,
                            SegmentSpikeTimeSteps)
          IN  /\ voltage_t0' = d.voltage
              /\ threshold_t0' = d.threshold
              /\ AScurrents_t0' = d.AScurrents
              /\ time_step' = time_step + 1
              /\ dyn_log' = Append(dyn_log,
                                   DynCall(time_step + start_index, voltage_t0, threshold_t0,
                                           AScurrents_t0, args.stim[time_step + start_index],
                                           SegmentSpikeTimeSteps))
              /\ pc' = pc
  /\ UNCHANGED << neuron, call, args, spike_time_steps, spike_times, interpolated_spike_times,
                  interpolated_spike_voltages, interpolated_spike_thresholds,
                  wrtvars, reset_log >>

\* line 537: whether the segment ends with a reset
ResetAtEndIfSpiked(target_spike_exists, spiked) == target_spike_exists /\ spiked
ResetAtEnd(target_spike_exists, spiked) == target_spike_exists

\* line 543: dt * n / (1 - (th1 - v1) / (th0 - v0))
ExtrapolatedSpikeTime(dt, n, v0, th0, v1, th1) ==
  IF th0 - v0 = 0
  THEN (IF th1 - v1 = 0 THEN Rat(0, 0) ELSE Rat(0, 1))
  ELSE Rat(dt * n * (th0 - v0), (th0 - v0) - (th1 - v1))

\* line 544: np.ceil(t / dt) * dt
CeilToGrid(t, dt) ==
  IF ~ RFinite(t) THEN Rat(0, 0)
  ELSE RInt((0 - ((0 - t.n) \div (t.d * dt))) * dt)

\* lines 546-547: x_last + delta * (x1 - x_last) / dt
ValueAtDelta(dt, x_last, x1, delta) == Rat((x_last * dt) + (delta * (x1 - x_last)), dt)

RAdd(r, x) == IF RFinite(r) THEN Rat(r.n + (x * r.d), r.d) ELSE r

\* lines 524-552, for a segment of at least one step: what run_until_spike
\* computes once the segment is integrated.  voltage_t0, threshold_t0 and
\* AScurrents_t0 hold the state after the last step (the source's voltage_t1,
\* threshold_t1, AScurrents_t1).
RunUntilSpikeResult ==
  LET n        == num_time_steps
      dt       == neuron.dt
      crossed  == {i \in DOMAIN voltage_out : Gt(voltage_out[i], threshold_out[i])}
      found    == crossed # {}
      first    == CHOOSE i \in crossed : \A j \in crossed : i <= j
      boundary == ~ found /\ Gt(voltage_t0, Idx(threshold_out, 0 - 1))
      spiked   == found \/ boundary
      \* the loop variable time_step as the scan of lines 525-529 leaves it
      t_reset  == IF found THEN first ELSE n - 1
      r        == Reset(neuron, voltage_t0, threshold_t0, AScurrents_t0, t_reset)
      resets   == ResetAtEnd(args.target_spike_exists, spiked)
      v_after  == IF resets THEN r.voltage ELSE voltage_t0
      th_after == IF resets THEN r.threshold ELSE threshold_t0
      interp   == IF found
                  THEN InterpolatedSpikeTime(dt, first - 1, Idx(voltage_out, first - 1),
                                             Idx(threshold_out, first - 1),
                                             voltage_out[first], threshold_out[first])
                  ELSE IF boundary
                  THEN InterpolatedSpikeTime(dt, n - 1, voltage_out[n - 1], threshold_out[n - 1],
                                             voltage_t0, threshold_t0)
                  ELSE ExtrapolatedSpikeTime(dt, n, v_after, th_after, voltage_t0, threshold_t0)
      grid     == IF found THEN RInt(dt * first)
                  ELSE IF boundary THEN RInt(dt * n)
                  ELSE CeilToGrid(interp, dt)
  IN  [ resets |-> resets,
        reset |-> r,
        t_reset |-> t_reset,
        raised |-> resets /\ ~ r.ok,
        spiked |-> spiked,
        grid_spike_time |-> grid,
        interpolated_spike_time |-> interp,
        \* line 550: grid_spike_time is not None, after lines 541-544 have set it
        yaySpike |-> TRUE,
        voltage_t0 |-> v_after,
        threshold_t0 |-> th_after,
        AScurrents_t0 |-> IF resets THEN r.AScurrents ELSE AScurrents_t0,
        voltage_t1 |-> voltage_t0,
        threshold_t1 |-> threshold_t0,
        v_ofModelAtInterpolatedBioSpike |->
          ValueAtDelta(dt, Idx(voltage_out, 0 - 1), voltage_t0, SegmentDelta),
        thresh_ofModelAtInterpolatedBioSpike |->
          ValueAtDelta(dt, Idx(threshold_out, 0 - 1), threshold_t0, SegmentDelta) ]

\* the reset of line 538, as the history records it
SegmentResetLog(res) ==
  IF res.resets
  THEN Append(reset_log, ResetCall(end_index, res.t_reset, voltage_t0, threshold_t0,
                                   AScurrents_t0, res.reset))
  ELSE reset_log

\* line 532 on a segment without steps: threshold_out[-1] of an empty array
RunUntilSpikeEmptySegment ==
  /\ pc = "run_until_spike_loop"
  /\ SegmentIntegrated
  /\ num_time_steps = 0
  /\ pc' = "failed"
  /\ UNCHANGED << neuron, call, args, runvars, wrtvars, dyn_log, reset_log >>

\* line 538: the reset at the end of the segment raises
RunUntilSpikeResetFails ==
  /\ pc = "run_until_spike_loop"
  /\ SegmentIntegrated
  /\ num_time_steps > 0
  /\ RunUntilSpikeResult.raised
  /\ reset_log' = SegmentResetLog(RunUntilSpikeResult)
  /\ pc' = "failed"
  /\ UNCHANGED << neuron, call, args, runvars, wrtvars, dyn_log >>

\* line 392: where the next segment starts
NextStartAfter(end) == end + 1
NextStart(end) == end

\* lines 308-335: the single segment of a call without target spikes returns;
\* its traces are the traces of the call and the per-spike arrays are empty
WrtOnlySegmentReturns ==
  /\ pc = "run_until_spike_loop" /\ segment = "only"
  /\ SegmentIntegrated
  /\ num_time_steps > 0
  /\ LET res == RunUntilSpikeResult
     IN  /\ ~ res.raised
         /\ reset_log' = SegmentResetLog(res)
         /\ voltage' = voltage_out
         /\ threshold' = threshold_out
         /\ AScurrent_matrix' = AScurrents_out
         /\ per_spike' = PerSpike(0, Unassigned)
         /\ voltage_t0' = voltage_t0 /\ threshold_t0' = threshold_t0
         /\ AScurrents_t0' = AScurrents_t0
  /\ pc' = "checks"
  /\ UNCHANGED << neuron, call, args, time_step, voltage_out, threshold_out, AScurrents_out,
                  spike_time_steps, spike_times, interpolated_spike_times,
                  interpolated_spike_voltages, interpolated_spike_thresholds,
                  segment, spike_num, start_index, end_index, write_count, dyn_log >>

\* lines 369-392 (and 401-405 after the last target spike): the segment of
\* target spike spike_num returns; its traces are copied, its statistics are
\* stored, the reset state is carried and the next segment is set up
WrtTargetSegmentReturns ==
  /\ pc = "run_until_spike_loop" /\ segment = "target"
  /\ SegmentIntegrated
  /\ num_time_steps > 0
  /\ LET res  == RunUntilSpikeResult
         ids  == args.spike_train_ids
         last == spike_num = ALen(ids) - 1
     IN  /\ ~ res.raised
         /\ reset_log' = SegmentResetLog(res)
         /\ voltage' = AssignSlice(voltage, start_index, end_index, voltage_out)
         /\ threshold' = AssignSlice(threshold, start_index, end_index, threshold_out)
         /\ AScurrent_matrix' = AssignSlice(AScurrent_matrix, start_index, end_index, AScurrents_out)
         /\ write_count' = CountSlice(write_count, start_index, end_index)
         /\ per_spike' =
              [ per_spike EXCEPT
                  !.gridISIFromLastTargSpike_array[spike_num] = res.grid_spike_time,
                  !.interpolatedISIFromLastTargSpike_array[spike_num] = res.interpolated_spike_time,
                  !.interpolatedTimeArray[spike_num] =
                      RAdd(res.interpolated_spike_time, start_index * neuron.dt),
                  !.gridTimeArray[spike_num] = RAdd(res.grid_spike_time, start_index * neuron.dt),
                  !.voltageOfModelAtGridBioSpike_array[spike_num] = RInt(res.voltage_t1),
                  !.threshOfModelAtGridBioSpike_array[spike_num] = RInt(res.threshold_t1),
                  !.v_ofModelAtInterpolatedBioSpike_array[spike_num] =
                      res.v_ofModelAtInterpolatedBioSpike,
                  !.thresh_ofModelAtInterpolatedBioSpike_array[spike_num] =
                      res.thresh_ofModelAtInterpolatedBioSpike ]
         /\ voltage_t0' = res.voltage_t0
         /\ threshold_t0' = res.threshold_t0
         /\ AScurrents_t0' = res.AScurrents_t0
         /\ IF last
            THEN /\ segment' = "trailing"
                 /\ start_index' = Idx(ids, 0 - 1)
                 /\ end_index' = ALen(args.stim)
                 /\ spike_num' = spike_num
            ELSE /\ segment' = "target"
                 /\ start_index' = NextStart(end_index)
                 /\ end_index' = ids[spike_num + 1]
                 /\ spike_num' = spike_num + 1
  /\ pc' = "run_until_spike"
  /\ UNCHANGED << neuron, call, args, time_step, voltage_out, threshold_out, AScurrents_out,
                  spike_time_steps, spike_times, interpolated_spike_times,
                  interpolated_spike_voltages, interpolated_spike_thresholds, dyn_log >>

\* lines 401-409: the segment after the last target spike returns; its traces
\* are copied and nothing else of it is kept
WrtTrailingSegmentReturns ==
  /\ pc = "run_until_spike_loop" /\ segment = "trailing"
  /\ SegmentIntegrated
  /\ num_time_steps > 0
  /\ LET res == RunUntilSpikeResult
         from == Idx(args.spike_train_ids, 0 - 1)
     IN  /\ ~ res.raised
         /\ reset_log' = SegmentResetLog(res)
         /\ voltage' = AssignSlice(voltage, from, ALen(voltage), voltage_out)
         /\ threshold' = AssignSlice(threshold, from, ALen(threshold), threshold_out)
         /\ AScurrent_matrix' = AssignSlice(AScurrent_matrix, from, ALen(AScurrent_matrix),
                                            AScurrents_out)
         /\ write_count' = CountSlice(write_count, from, ALen(voltage))
         /\ voltage_t0' = voltage_t0 /\ threshold_t0' = threshold_t0
         /\ AScurrents_t0' = AScurrents_t0
  /\ pc' = "checks"
  /\ UNCHANGED << neuron, call, args, time_step, voltage_out, threshold_out, AScurrents_out,
                  spike_time_steps, spike_times, interpolated_spike_times,
                  interpolated_spike_voltages, interpolated_spike_thresholds,
                  per_spike, segment, spike_num, start_index, end_index, dyn_log >>

\* lines 413-424: a trace still holds the sentinel
TraceIncomplete ==
  \/ AnyNan(voltage)
  \/ AnyNan(threshold)
  \/ \E i \in DOMAIN AScurrent_matrix : AnyNan(AScurrent_matrix[i])

\* lines 428-431: a per-spike array whose length is not the number of target spikes
SpikeCountMismatch ==
  LET num_spikes == ALen(args.spike_train_ids)
  IN  \/ ALen(per_spike.interpolatedTimeArray) # num_spikes
      \/ ALen(per_spike.interpolatedVoltageArray) # num_spikes
      \/ ALen(per_spike.gridTimeArray) # num_spikes
      \/ ALen(per_spike.gridISIFromLastTargSpike_array) # num_spikes
      \/ ALen(per_spike.interpolatedISIFromLastTargSpike_array) # num_spikes
      \/ ALen(per_spike.voltageOfModelAtGridBioSpike_array) # num_spikes
      \/ ALen(per_spike.threshOfModelAtGridBioSpike_array) # num_spikes
      \/ ALen(per_spike.v_ofModelAtInterpolatedBioSpike_array) # num_spikes
      \/ ALen(per_spike.thresh_ofModelAtInterpolatedBioSpike_array) # num_spikes

\* lines 412-434: the checks on the outputs, then the return
WrtChecks ==
  /\ pc = "checks"
  /\ pc' = IF TraceIncomplete \/ SpikeCountMismatch THEN "failed" ELSE "done"
  /\ UNCHANGED << neuron, call, args, runvars, wrtvars, dyn_log, reset_log >>

Next ==
  \/ CallRun
  \/ RunStepNoSpike
  \/ RunStepSpikeCut
  \/ RunStepSpikeStore
  \/ RunStepResetFails
  \/ RunReturn
  \/ CallWrt
  \/ RunUntilSpikeEnter
  \/ RunUntilSpikeStep
  \/ RunUntilSpikeEmptySegment
  \/ RunUntilSpikeResetFails
  \/ WrtOnlySegmentReturns
  \/ WrtTargetSegmentReturns
  \/ WrtTrailingSegmentReturns
  \/ WrtChecks

Spec == Init /\ [][Next]_vars

\* the free run alone: run is a closed sequential computation, so a step
\* that can be taken is taken
NextRun ==
  \/ CallRun
  \/ RunStepNoSpike
  \/ RunStepSpikeCut
  \/ RunStepSpikeStore
  \/ RunStepResetFails
  \/ RunReturn

SpecRun == Init /\ [][NextRun]_vars /\ WF_vars(NextRun)

\* ------------------------------------------------------------------ claims
\* the call of dynamics that run made for step s
DynCallAt(s) == dyn_log[CHOOSE j \in DOMAIN dyn_log : dyn_log[j].time_step = s]

\* the spikes of a free run whose reset returned: positions in the spike lists
\* (every spike appends one entry to each list and one to reset_log)
RunSpikes == IF call = "run" THEN {k \in DOMAIN reset_log : reset_log[k].ok} ELSE {}

\* C1: every reset call that returns gives voltage strictly below threshold;
\* a reset whose methods give voltage >= threshold (or a nan) raises, it is
\* the last thing the run does, and the run ends failed, never done.
C1_ResetBelowThreshold ==
  \A k \in DOMAIN reset_log :
    LET e == reset_log[k]
    IN  /\ e.ok <=> Lt(e.voltage_t1, e.threshold_t1)
        /\ ~ e.ok => (pc = "failed" /\ k = Len(reset_log))

C1_Witness ==
  /\ pc = "failed"
  /\ Len(reset_log) >= 2
  /\ reset_log[1].ok
  /\ ~ reset_log[Len(reset_log)].ok
  /\ reset_log[Len(reset_log)].voltage_t1 >= reset_log[Len(reset_log)].threshold_t1

C5_InterpolatedTimeInStep ==
  \A k \in (IF call = "run" THEN DOMAIN spike_time_steps ELSE {}) :
    LET s == spike_time_steps[k]
        c == DynCallAt(s)
    IN  Lt(c.voltage_t0, c.threshold_t0) =>
          /\ spike_times[k] = s * neuron.dt
          /\ RLt(RInt((s - 1) * neuron.dt), interpolated_spike_times[k])
          /\ RLt(interpolated_spike_times[k], RInt(s * neuron.dt))

\* C6 (as claimed): for every spike of a free run (found from a pre-step
\* voltage below the pre-step threshold), the interpolated voltage and
\* threshold are the pre-step values moved towards the post-step values by
\* the fraction f at which voltage - threshold crosses zero; each lies between
\* its pre-step and post-step value, and the two are equal.
Between(x0, r, x1) ==
  \/ RLe(RInt(x0), r) /\ RLe(r, RInt(x1))
  \/ RLe(RInt(x1), r) /\ RLe(r, RInt(x0))

C6_InterpolatedValuesAtCrossing ==
  \A k \in (IF call = "run" THEN DOMAIN spike_time_steps ELSE {}) :
    LET s   == spike_time_steps[k]
        c   == DynCallAt(s)
        d   == Dynamics(neuron, c.voltage_t0, c.threshold_t0, c.AScurrents_t0, c.inj,
                        c.time_step, c.spike_time_steps)
        a   == c.threshold_t0 - c.voltage_t0
        den == (d.voltage - d.threshold) + a
    IN  Lt(c.voltage_t0, c.threshold_t0) =>
          /\ REq(interpolated_spike_voltages[k],
                 Rat((c.voltage_t0 * den) + ((d.voltage - c.voltage_t0) * a), den))
          /\ REq(interpolated_spike_thresholds[k],
                 Rat((c.threshold_t0 * den) + ((d.threshold - c.threshold_t0) * a), den))
          /\ Between(c.voltage_t0, interpolated_spike_voltages[k], d.voltage)
          /\ Between(c.threshold_t0, interpolated_spike_thresholds[k], d.threshold)
          /\ REq(interpolated_spike_voltages[k], interpolated_spike_thresholds[k])

\* the three traces of run hold the sentinel at index i
BlankAt(i) ==
  /\ voltage_out[i] = NaN
  /\ threshold_out[i] = NaN
  /\ AScurrents_out[i] = NanRow(Len(args.AScurrents_t0))

\* C3 (as claimed): with refractory length n > 0, each spike of a free run
\* found at step s has n output samples, s .. s+n-1, holding the sentinel in
\* the three traces.
C3_ExactlyNBlanked ==
  (call = "run" /\ neuron.spike_cut_length > 0) =>
    \A k \in RunSpikes :
      \A i \in reset_log[k].t .. (reset_log[k].t + neuron.spike_cut_length - 1) :
        i \in DOMAIN voltage_out /\ BlankAt(i)

\* C3 (amended): with refractory length n > 0, each spike of a free run found
\* at step s leaves the sentinel in the three traces at the indices
\* s .. min(s+n, len(stim)) - 1, the spike step itself and the n-1 steps after
\* it as far as the stimulus reaches, from the spike until the run returns;
\* the step that finds the spike advances the step index by n.
C3_BlankedWithinStimulus ==
  /\ [] ( (call = "run" /\ neuron.spike_cut_length > 0) =>
            \A k \in RunSpikes :
              \A i \in reset_log[k].t .. (reset_log[k].t + neuron.spike_cut_length - 1) :
                i \in DOMAIN voltage_out => BlankAt(i) )
  /\ [][ (call = "run" /\ pc = "run_loop" /\ neuron.spike_cut_length > 0
          /\ Len(reset_log') > Len(reset_log) /\ reset_log'[Len(reset_log')].ok) =>
           time_step' = time_step + neuron.spike_cut_length ]_vars

\* a spike whose blanking window reaches past the end of the stimulus, and
\* one whose window lies inside it and is followed by an integrated step
C3_Witness ==
  /\ call = "run" /\ pc = "done"
  /\ neuron.spike_cut_length = 2
  /\ Len(reset_log) = 2
  /\ reset_log[1].ok /\ reset_log[2].ok
  /\ reset_log[1].t + neuron.spike_cut_length = reset_log[2].t
  /\ reset_log[2].t + neuron.spike_cut_length > ALen(args.stim)

\* C4: with refractory length 0, each spike of a free run found at step s has
\* the state reset returned written at index s of the three traces, and the
\* dynamics call for step s+1 (made whenever the stimulus has a sample s+1)
\* is given exactly that state.
C4_ResetStoredAndCarried ==
  (call = "run" /\ neuron.spike_cut_length = 0) =>
    \A k \in RunSpikes :
      LET e == reset_log[k]
      IN  /\ voltage_out[e.t] = e.voltage_t1
          /\ threshold_out[e.t] = e.threshold_t1
          /\ AScurrents_out[e.t] = e.AScurrents_t1
          /\ \A j \in DOMAIN dyn_log :
               dyn_log[j].time_step = e.t + 1 =>
                 /\ dyn_log[j].voltage_t0 = e.voltage_t1
                 /\ dyn_log[j].threshold_t0 = e.threshold_t1
                 /\ dyn_log[j].AScurrents_t0 = e.AScurrents_t1
          /\ (pc = "done" /\ e.t + 1 < ALen(args.stim)) =>
               \E j \in DOMAIN dyn_log : dyn_log[j].time_step = e.t + 1

C4_Witness ==
  /\ call = "run" /\ pc = "done" /\ neuron.spike_cut_length = 0
  /\ \E k \in RunSpikes :
       /\ reset_log[k].t + 1 < ALen(args.stim)
       /\ reset_log[k].voltage_t1 # reset_log[k].voltage_t0
       /\ reset_log[k].AScurrents_t1 # reset_log[k].AScurrents_t0

\* ------------------------------------------- claims on the target-aligned run
WrtCall == call = "run_wrt_target_spike_train"
NumTargets == ALen(args.spike_train_ids)

\* a target-aligned run with targets that has allocated its outputs and not failed
WrtUnderWay ==
  /\ WrtCall /\ NumTargets > 0
  /\ pc \in {"run_until_spike", "run_until_spike_loop", "checks", "done"}

\* C7: from the moment a target-aligned run has its per-spike outputs until it
\* returns, each of the eight returned per-spike sequences has as many entries
\* as there are target spike indices: none for an empty train, whatever the
\* model did; on return every entry has been assigned.
C7_PerSpikeLengths ==
  (WrtCall /\ (WrtUnderWay \/ pc \in {"checks", "done"})) =>
    /\ ALen(per_spike.gridTimeArray) = NumTargets
    /\ ALen(per_spike.interpolatedTimeArray) = NumTargets
    /\ ALen(per_spike.gridISIFromLastTargSpike_array) = NumTargets
    /\ ALen(per_spike.interpolatedISIFromLastTargSpike_array) = NumTargets
    /\ ALen(per_spike.voltageOfModelAtGridBioSpike_array) = NumTargets
    /\ ALen(per_spike.threshOfModelAtGridBioSpike_array) = NumTargets
    /\ ALen(per_spike.v_ofModelAtInterpolatedBioSpike_array) = NumTargets
    /\ ALen(per_spike.thresh_ofModelAtInterpolatedBioSpike_array) = NumTargets
    /\ pc = "done" =>
         \A k \in 0 .. (NumTargets - 1) :
           /\ per_spike.gridTimeArray[k] # Unassigned
           /\ per_spike.interpolatedTimeArray[k] # Unassigned
           /\ per_spike.gridISIFromLastTargSpike_array[k] # Unassigned
           /\ per_spike.interpolatedISIFromLastTargSpike_array[k] # Unassigned
           /\ per_spike.voltageOfModelAtGridBioSpike_array[k] # Unassigned
           /\ per_spike.threshOfModelAtGridBioSpike_array[k] # Unassigned
           /\ per_spike.v_ofModelAtInterpolatedBioSpike_array[k] # Unassigned
           /\ per_spike.thresh_ofModelAtInterpolatedBioSpike_array[k] # Unassigned

\* a run with two targets returns, the model having crossed its threshold
C7_Witness ==
  /\ WrtCall /\ pc = "done" /\ NumTargets = 2
  /\ \E i \in DOMAIN voltage : Gt(voltage[i], threshold[i])

\* the indices of the full-length traces the segments returned so far cover
WrtFilled == IF pc \in {"checks", "done"} THEN ALen(args.stim) ELSE start_index

C9_EmptyTrainWholeStimulus ==
  (WrtCall /\ pc = "done" /\ NumTargets = 0) =>
    /\ ALen(voltage) = ALen(args.stim)
    /\ ALen(threshold) = ALen(args.stim)
    /\ ALen(AScurrent_matrix) = ALen(args.stim)
    /\ Len(dyn_log) = ALen(args.stim)

\* the target boundaries whose segment has returned
BoundariesDone ==
  IF segment = "trailing" \/ pc \in {"checks", "done"} THEN NumTargets ELSE spike_num

C11_TrailingSegmentNotReset ==
  [][ (WrtCall /\ segment = "trailing") =>
        (reset_log' = reset_log /\ per_spike' = per_spike) ]_vars

\* the k-th call of dynamics (from 0) that the segment under way has made
SegmentDynCall(k) == dyn_log[(Len(dyn_log) - time_step) + k + 1]

C13_SameSpikeTimesAsRun ==
  (WrtUnderWay /\ BoundariesDone >= 1 /\ Lt(args.voltage_t0, args.threshold_t0)
     /\ \E i \in 0 .. (args.spike_train_ids[0] - 1) : Gt(voltage[i], threshold[i])) =>
    LET r == RunToFirstSpike(neuron, args.voltage_t0, args.threshold_t0, args.AScurrents_t0,
                             args.stim, 0)
    IN  /\ r.spiked
        /\ REq(per_spike.gridISIFromLastTargSpike_array[0], RInt(r.spike_time))
        /\ REq(per_spike.interpolatedISIFromLastTargSpike_array[0], r.interpolated_spike_time)

\* run_until_spike has integrated a segment of at least one step and is about
\* to look for the spike
SegmentScanned ==
  WrtCall /\ pc = "run_until_spike_loop" /\ time_step = end_index - start_index /\ time_step > 0

\* the recorded trace of the segment has a step with voltage above threshold
RecordedCrossing == \E i \in DOMAIN voltage_out : Gt(voltage_out[i], threshold_out[i])

\* C14 (as claimed): when no recorded step of a segment has voltage above
\* threshold, run_until_spike attributes the spike to the boundary, with grid
\* spike time dt * (segment length), if and only if the state after the last
\* integrated step has its voltage above its threshold.
C14_BoundaryIffFinalAbove ==
  (SegmentScanned /\ ~ RecordedCrossing) =>
    /\ RunUntilSpikeResult.spiked <=> Gt(voltage_t0, threshold_t0)
    /\ RunUntilSpikeResult.spiked =>
         RunUntilSpikeResult.grid_spike_time = RInt(neuron.dt * (end_index - start_index))

\* C15 (as claimed): when a segment has no crossing at all, neither in its
\* recorded trace nor at the boundary, the interpolated spike time
\* run_until_spike returns is the extrapolation, by line 543's formula, of the
\* last recorded state and the state after the last step (the final two
\* simulated states), with and without target_spike_exists, and the grid spike
\* time it returns is that time rounded up to a multiple of dt.
C15_ExtrapolatesFinalTrend ==
  (SegmentScanned /\ ~ RecordedCrossing /\ ~ RunUntilSpikeResult.spiked
     /\ ~ RunUntilSpikeResult.raised) =>
    LET n == end_index - start_index
        t == ExtrapolatedSpikeTime(neuron.dt, n, voltage_out[n - 1], threshold_out[n - 1],
                                   voltage_t0, threshold_t0)
    IN  /\ RunUntilSpikeResult.interpolated_spike_time = t
        /\ RunUntilSpikeResult.grid_spike_time = CeilToGrid(t, neuron.dt)

\* C16 (as claimed): the spike flag run_until_spike returns for a segment is
\* true exactly when the model spiked within the segment (a crossing in the
\* recorded trace, or a spike attributed to the boundary), and false when the
\* spike time had to be extrapolated.
C16_SpikeFlagTellsSpike ==
  (SegmentScanned /\ ~ RunUntilSpikeResult.raised) =>
    (RunUntilSpikeResult.yaySpike <=> RunUntilSpikeResult.spiked)

\* a value that is not a finite number
NotFinite(x) == x = NaN \/ x = Inf

\* C17: in a target-aligned run, a step of a segment whose recorded state has
\* a voltage, a threshold or an after-spike current that is not a finite
\* number makes the run fail there, without a call of dynamics or reset; and
\* the traces of a run that has returned hold no such value.
C17_InvalidStateFails ==
  /\ [][ (WrtCall /\ pc = "run_until_spike_loop" /\ time_step < end_index - start_index
          /\ (NotFinite(voltage_t0) \/ NotFinite(threshold_t0)
              \/ \E i \in DOMAIN AScurrents_t0 : NotFinite(AScurrents_t0[i]))) =>
           (pc' = "failed" /\ dyn_log' = dyn_log /\ reset_log' = reset_log
            /\ time_step' = time_step) ]_vars
  /\ [] ( (WrtCall /\ pc = "done") =>
            \A i \in DOMAIN voltage :
              /\ ~ NotFinite(voltage[i])
              /\ ~ NotFinite(threshold[i])
              /\ \A k \in DOMAIN AScurrent_matrix[i] : ~ NotFinite(AScurrent_matrix[i][k]) )

\* a run has failed on a state that is not finite and that dynamics produced:
\* it is recorded in the segment's trace after steps that were integrated
C17_Witness ==
  /\ WrtCall /\ pc = "failed"
  /\ Len(dyn_log) >= 2
  /\ time_step \in DOMAIN voltage_out
  /\ NotFinite(voltage_out[time_step])
  /\ voltage_t0 = voltage_out[time_step]
  /\ start_index > 0

\* ------------------------------------------------------------ construction
\* GLIFNeuron.__init__ and configure_library_method, as a specification of
\* their own: the state before construction holds the arguments, and the
\* constructor either returns the neuron or raises.

\* the six method roles, in the order __init__ configures them (lines 51-59)
MethodRoles ==
  << "AScurrent_dynamics_method", "voltage_dynamics_method", "threshold_dynamics_method",
     "AScurrent_reset_method", "voltage_reset_method", "threshold_reset_method" >>

\* the registries the constructor may find: the library, and one without a role
Libraries ==
  { METHOD_LIBRARY,
    [r \in (DOMAIN METHOD_LIBRARY) \ {"threshold_reset_method"} |-> METHOD_LIBRARY[r]] }

\* the method configurations (dictionaries) given for a role: a complete one,
\* one without 'name', one without 'params', one with a name the role has not
ConfigChoices(role) ==
  LET name == CHOOSE m \in METHOD_LIBRARY[role] : TRUE
  IN  { Method(name, 0, 0, 0, 0),
        [params |-> Method(name, 0, 0, 0, 0).params],
        [name |-> name],
        Method("unregistered", 0, 0, 0, 0) }

ConstructorArgs ==
  { [ El |-> 0, dt |-> 1, tau |-> tau, R_input |-> 1, asc_vector |-> asc,
      spike_cut_length |-> 0, th_inf |-> 2, library |-> lib,
      AScurrent_dynamics_method |-> c1, voltage_dynamics_method |-> c2,
      threshold_dynamics_method |-> c3, AScurrent_reset_method |-> c4,
      voltage_reset_method |-> c5, threshold_reset_method |-> c6 ] :
      tau \in {<<>>, <<2>>}, asc \in {<<>>, <<1>>}, lib \in Libraries,
      c1 \in ConfigChoices(MethodRoles[1]), c2 \in ConfigChoices(MethodRoles[2]),
      c3 \in ConfigChoices(MethodRoles[3]), c4 \in ConfigChoices(MethodRoles[4]),
      c5 \in ConfigChoices(MethodRoles[5]), c6 \in ConfigChoices(MethodRoles[6]) }

\* no neuron object
NoNeuron == [constructed |-> FALSE]

\* line 31: the assertion on the lengths of tau and asc_vector
LengthsAgreeOrShorter(tau, asc_vector) == Len(tau) <= Len(asc_vector)
LengthsAgree(tau, asc_vector) == Len(tau) = Len(asc_vector)

\* configure_library_method, lines 87-102: whether its four assertions pass
ConfigureLibraryMethod(library, method_type, params) ==
  /\ method_type \in DOMAIN library
  /\ "name" \in DOMAIN params
  /\ "params" \in DOMAIN params
  /\ params.name \in library[method_type]

\* __init__, lines 18-60: whether the constructor returns
InitReturns(a) ==
  /\ LengthsAgree(a.tau, a.asc_vector)
  /\ \A i \in DOMAIN MethodRoles : ConfigureLibraryMethod(a.library, MethodRoles[i], a[MethodRoles[i]])

\* the neuron __init__ builds from its arguments
InitNeuron(a) ==
  [ El |-> a.El, dt |-> a.dt, tau |-> a.tau, asc_vector |-> a.asc_vector,
    G |-> 1 \div a.R_input, spike_cut_length |-> a.spike_cut_length, th_inf |-> a.th_inf,
    AScurrent_dynamics_method |-> a.AScurrent_dynamics_method,
    voltage_dynamics_method   |-> a.voltage_dynamics_method,
    threshold_dynamics_method |-> a.threshold_dynamics_method,
    AScurrent_reset_method    |-> a.AScurrent_reset_method,
    voltage_reset_method      |-> a.voltage_reset_method,
    threshold_reset_method    |-> a.threshold_reset_method ]

ConstructInit ==
  /\ neuron = NoNeuron
  /\ call = "__init__"
  /\ pc = "new"
  /\ args \in ConstructorArgs
  /\ time_step = 0
  /\ voltage_t0 = 0 /\ threshold_t0 = 0 /\ AScurrents_t0 = <<>>
  /\ voltage_out = <<>> /\ threshold_out = <<>> /\ AScurrents_out = <<>>
  /\ spike_time_steps = <<>> /\ spike_times = <<>> /\ interpolated_spike_times = <<>>
  /\ interpolated_spike_voltages = <<>> /\ interpolated_spike_thresholds = <<>>
  /\ voltage = <<>> /\ threshold = <<>> /\ AScurrent_matrix = <<>>
  /\ per_spike = NoPerSpike
  /\ segment = "none" /\ spike_num = 0 /\ start_index = 0 /\ end_index = 0
  /\ dyn_log = <<>>
  /\ reset_log = <<>>
  /\ write_count = <<>>

\* __init__ returns: the neuron exists, with its six methods configured
ConstructReturns ==
  /\ pc = "new"
  /\ InitReturns(args)
  /\ neuron' = InitNeuron(args)
  /\ pc' = "idle"
  /\ UNCHANGED << call, args, runvars, wrtvars, dyn_log, reset_log >>

\* an assertion of __init__ or of configure_library_method fails
ConstructRaises ==
  /\ pc = "new"
  /\ ~ InitReturns(args)
  /\ pc' = "failed"
  /\ UNCHANGED << neuron, call, args, runvars, wrtvars, dyn_log, reset_log >>

ConstructNext ==
  \/ ConstructReturns
  \/ ConstructRaises

SpecConstruct == ConstructInit /\ [][ConstructNext]_vars

\* the method configuration given for a role resolves in the registry
Resolves(a, role) ==
  /\ role \in DOMAIN a.library
  /\ DOMAIN a[role] = {"name", "params"}
  /\ a[role].name \in a.library[role]

\* C18: once the constructor has run, it has failed and there is no neuron
\* object whenever tau and asc_vector differ in length, a method role is not
\* in the registry, a method configuration lacks 'name' or 'params', or its
\* name is not registered under its role; and when it has returned a neuron,
\* the lengths agree and each of the six methods resolves and is held by the
\* neuron under its role.
C18_ConstructionFailsOnBadConfig ==
  (call = "__init__" /\ pc # "new") =>
    /\ ( \/ Len(args.tau) # Len(args.asc_vector)
         \/ \E i \in DOMAIN MethodRoles : ~ Resolves(args, MethodRoles[i]) ) =>
         (pc = "failed" /\ neuron = NoNeuron)
    /\ pc = "idle" =>
         /\ neuron # NoNeuron
         /\ Len(neuron.tau) = Len(neuron.asc_vector)
         /\ \A i \in DOMAIN MethodRoles :
              /\ Resolves(args, MethodRoles[i])
              /\ neuron[MethodRoles[i]].name = args[MethodRoles[i]].name

\* the constructor has failed on arguments whose only fault is a voltage reset
\* configuration without 'params'
C18_Witness ==
  /\ call = "__init__" /\ pc = "failed"
  /\ Len(args.tau) = 1 /\ Len(args.asc_vector) = 1
  /\ DOMAIN args.voltage_reset_method = {"name"}
  /\ \A i \in DOMAIN MethodRoles :
       MethodRoles[i] # "voltage_reset_method" => Resolves(args, MethodRoles[i])

\* C19: a free run ends, by returning or by raising, for every stimulus and
\* refractory length; every iteration that completes moves the step index up,
\* by the refractory length when it found a spike and that length is above 0
\* and by 1 otherwise; dynamics is called at most len(stim) times; and the
\* three traces have len(stim) samples throughout, also after a blanking
\* window that reaches past the end of the stimulus.
C19_FreeRunTerminates ==
  /\ [] ( call = "run" =>
            /\ Len(dyn_log) <= ALen(args.stim)
            /\ DOMAIN voltage_out = DOMAIN args.stim
            /\ DOMAIN threshold_out = DOMAIN args.stim
            /\ DOMAIN AScurrents_out = DOMAIN args.stim )
  /\ [][ (call = "run" /\ pc = "run_loop" /\ pc' = "run_loop") =>
           /\ time_step < ALen(args.stim)
           /\ time_step' > time_step
           /\ Len(dyn_log') = Len(dyn_log) + 1
           /\ time_step' = (IF Len(reset_log') > Len(reset_log) /\ neuron.spike_cut_length > 0
                            THEN time_step + neuron.spike_cut_length
                            ELSE time_step + 1) ]_vars
  /\ (call = "run") ~> (call = "run" /\ pc \in {"done", "failed"})

\* a run with refractory length 2 has returned whose only spike is at the
\* last sample of a stimulus of three samples
C19_Witness ==
  /\ call = "run" /\ pc = "done"
  /\ neuron.spike_cut_length = 2
  /\ ALen(args.stim) = 3
  /\ Len(reset_log) = 1 /\ reset_log[1].t = 2
  /\ Len(dyn_log) = 3
  /\ ALen(voltage_out) = 3

\* the state after k steps of dynamics from the initial state of the call,
\* on the first k stimulus samples, no spike having been found
RECURSIVE StateAfter(_)
StateAfter(k) ==
  IF k = 0
  THEN [ voltage |-> args.voltage_t0, threshold |-> args.threshold_t0,
         AScurrents |-> args.AScurrents_t0 ]
  ELSE LET s == StateAfter(k - 1)
       IN  Dynamics(neuron, s.voltage, s.threshold, s.AScurrents, args.stim[k - 1], k - 1, <<>>)

\* C20: when a free run from a finite initial state has returned, a sample of
\* any of the three traces holds the sentinel only at an index inside the
\* blanking window (s .. s + n - 1, refractory length n > 0) of a recorded
\* spike at step s; so without a spike, or with refractory length 0, no
\* sentinel is left; and without a spike the sample at index i is the state
\* that i + 1 applications of dynamics give from the initial state.
C20_SentinelOnlyInBlankingWindow ==
  (call = "run" /\ pc = "done" /\ ~ NotFinite(args.voltage_t0)) =>
    /\ \A i \in DOMAIN voltage_out :
         (voltage_out[i] = NaN \/ threshold_out[i] = NaN \/ AnyNan(AScurrents_out[i])) =>
           /\ neuron.spike_cut_length > 0
           /\ \E k \in DOMAIN spike_time_steps :
                /\ spike_time_steps[k] <= i
                /\ i < spike_time_steps[k] + neuron.spike_cut_length
    /\ Len(spike_time_steps) = 0 =>
         \A i \in DOMAIN voltage_out :
           /\ voltage_out[i] = StateAfter(i + 1).voltage
           /\ threshold_out[i] = StateAfter(i + 1).threshold
           /\ AScurrents_out[i] = StateAfter(i + 1).AScurrents

\* a run of three steps on a neuron with a refractory length has returned
\* without a spike, its voltage having moved after the first step
C20_Witness ==
  /\ call = "run" /\ pc = "done"
  /\ neuron.spike_cut_length > 0
  /\ ALen(args.stim) = 3
  /\ Len(spike_time_steps) = 0
  /\ voltage_out[0] = args.voltage_t0
  /\ voltage_out[2] # voltage_out[0]

\* ---------------------------------------------------------------- C21
\* what run returns by return or by failure, as the state holds it
RunOutcome ==
  [ raised |-> pc = "failed",
    voltage_out |-> voltage_out, threshold_out |-> threshold_out,
    AScurrents_out |-> AScurrents_out,
    spike_times |-> spike_times, interpolated_spike_times |-> interpolated_spike_times,
    spike_time_steps |-> spike_time_steps,
    interpolated_spike_voltages |-> interpolated_spike_voltages,
    interpolated_spike_thresholds |-> interpolated_spike_thresholds ]

\* run, lines 185-249, as a function of its inputs: the loop from step on,
\* with the carried state v, th, asc and the outputs out built so far
RECURSIVE RunFrom(_, _, _, _, _, _, _)
RunFrom(n, stim, step, v, th, asc, out) ==
  IF ~ (step < ALen(stim)) THEN out
  ELSE
    LET d == Dynamics(n, v, th, asc, stim[step], step, out.spike_time_steps)
    IN  IF ~ Gt(d.voltage, d.threshold)
        THEN RunFrom(n, stim, step + 1, d.voltage, d.threshold, d.AScurrents,
                     [out EXCEPT !.voltage_out[step] = d.voltage,
                                 !.threshold_out[step] = d.threshold,
                                 !.AScurrents_out[step] = d.AScurrents])
        ELSE
          LET t == InterpolatedSpikeTime(n.dt, step, v, th, d.voltage, d.threshold)
              r == Reset(n, d.voltage, d.threshold, d.AScurrents, step)
              cut == n.spike_cut_length
              rec == [out EXCEPT
                        !.spike_time_steps = Append(@, step),
                        !.spike_times = Append(@, step * n.dt),
                        !.interpolated_spike_times = Append(@, t),
                        !.interpolated_spike_voltages =
                            Append(@, InterpolatedSpikeValue(n.dt, step, v, d.voltage, t)),
                        !.interpolated_spike_thresholds =
                            Append(@, InterpolatedSpikeValue(n.dt, step, th, d.threshold, t))]
          IN  IF ~ r.ok THEN [rec EXCEPT !.raised = TRUE]
              ELSE IF cut > 0
              THEN RunFrom(n, stim, step + cut, r.voltage, r.threshold, r.AScurrents,
                           [rec EXCEPT
                              !.voltage_out = FillSlice(@, step, step + cut, NaN),
                              !.threshold_out = FillSlice(@, step, step + cut, NaN),
                              !.AScurrents_out = FillSlice(@, step, step + cut, NanRow(Len(asc)))])
              ELSE RunFrom(n, stim, step + 1, r.voltage, r.threshold, r.AScurrents,
                           [rec EXCEPT !.voltage_out[step] = r.voltage,
                                       !.threshold_out[step] = r.threshold,
                                       !.AScurrents_out[step] = r.AScurrents])

\* run, lines 154-249, called on neuron n with the arguments a
RunAgain(n, a) ==
  RunFrom(n, a.stim, 0, a.voltage_t0, a.threshold_t0, a.AScurrents_t0,
          [ raised |-> FALSE,
            voltage_out |-> Arr(ALen(a.stim), NaN), threshold_out |-> Arr(ALen(a.stim), NaN),
            AScurrents_out |-> Arr(ALen(a.stim), NanRow(Len(a.AScurrents_t0))),
            spike_times |-> <<>>, interpolated_spike_times |-> <<>>,
            spike_time_steps |-> <<>>, interpolated_spike_voltages |-> <<>>,
            interpolated_spike_thresholds |-> <<>> ])


\* run_until_spike, lines 500-522, as a function of its inputs: the loop from
\* step on, with the carried state v, th, asc and the traces built so far
RECURSIVE SegmentFrom(_, _, _, _, _, _, _, _, _, _)
SegmentFrom(n, stim, start, num, spikes, step, v, th, asc, out) ==
  IF ~ (step < num)
  THEN [out EXCEPT !.voltage_t1 = v, !.threshold_t1 = th, !.AScurrents_t1 = asc]
  ELSE
    LET rec == [out EXCEPT !.voltage_out[step] = v, !.threshold_out[step] = th,
                           !.AScurrents_out[step] = asc]
    IN  IF InvalidState(v, th, asc) THEN [rec EXCEPT !.raised = TRUE]
        ELSE LET d == Dynamics(n, v, th, asc, stim[step + start], step + start, spikes)
             IN  SegmentFrom(n, stim, start, num, spikes, step + 1,
                             d.voltage, d.threshold, d.AScurrents, rec)

\* run_until_spike, lines 436-552, called on neuron n: the traces, the spike
\* times, the carried state and the model values at the target
SegmentAgain(n, v, th, asc, stim, start, end, spikes, target_spike_exists, delta) ==
  LET num == end - start
      dt  == n.dt
      seg == SegmentFrom(n, stim, start, num, spikes, 0, v, th, asc,
                         [ raised |-> FALSE, voltage_out |-> Arr(num, NaN),
                           threshold_out |-> Arr(num, NaN),
                           AScurrents_out |-> Arr(num, NanRow(Len(asc))),
                           voltage_t1 |-> v, threshold_t1 |-> th, AScurrents_t1 |-> asc ])
      crossed  == {i \in DOMAIN seg.voltage_out : Gt(seg.voltage_out[i], seg.threshold_out[i])}
      found    == crossed # {}
      first    == CHOOSE i \in crossed : \A j \in crossed : i <= j
      boundary == ~ found /\ Gt(seg.voltage_t1, Idx(seg.threshold_out, 0 - 1))
      r        == Reset(n, seg.voltage_t1, seg.threshold_t1, seg.AScurrents_t1,
                        IF found THEN first ELSE num - 1)
      v_after  == IF target_spike_exists THEN r.voltage ELSE seg.voltage_t1
      th_after == IF target_spike_exists THEN r.threshold ELSE seg.threshold_t1
      interp   == IF found
                  THEN InterpolatedSpikeTime(dt, first - 1, Idx(seg.voltage_out, first - 1),
                                             Idx(seg.threshold_out, first - 1),
                                             seg.voltage_out[first], seg.threshold_out[first])
                  ELSE IF boundary
                  THEN InterpolatedSpikeTime(dt, num - 1, seg.voltage_out[num - 1],
                                             seg.threshold_out[num - 1],
                                             seg.voltage_t1, seg.threshold_t1)
                  ELSE ExtrapolatedSpikeTime(dt, num, v_after, th_after,
                                             seg.voltage_t1, seg.threshold_t1)
  IN  IF num < 0 \/ seg.raised \/ num = 0 \/ (target_spike_exists /\ ~ r.ok)
      THEN [ raised |-> TRUE ]
      ELSE [ raised |-> FALSE,
             voltage_out |-> seg.voltage_out, threshold_out |-> seg.threshold_out,
             AScurrents_out |-> seg.AScurrents_out,
             grid_spike_time |-> IF found THEN RInt(dt * first)
                                 ELSE IF boundary THEN RInt(dt * num)
                                 ELSE CeilToGrid(interp, dt),
             interpolated_spike_time |-> interp,
             voltage_t0 |-> v_after, threshold_t0 |-> th_after,
             AScurrents_t0 |-> IF target_spike_exists THEN r.AScurrents ELSE seg.AScurrents_t1,
             voltage_t1 |-> seg.voltage_t1, threshold_t1 |-> seg.threshold_t1,
             v_ofModelAtInterpolatedBioSpike |->
               ValueAtDelta(dt, Idx(seg.voltage_out, 0 - 1), seg.voltage_t1, delta),
             thresh_ofModelAtInterpolatedBioSpike |->
               ValueAtDelta(dt, Idx(seg.threshold_out, 0 - 1), seg.threshold_t1, delta) ]

\* lines 412-432: the checks on the traces and on the per-spike arrays
ChecksRaise(out, num_spikes) ==
  \/ AnyNan(out.voltage)
  \/ AnyNan(out.threshold)
  \/ \E i \in DOMAIN out.AScurrent_matrix : AnyNan(out.AScurrent_matrix[i])
  \/ \E f \in DOMAIN out.per_spike : ALen(out.per_spike[f]) # num_spikes

\* run_wrt_target_spike_train, lines 363-409, as a function of its inputs: the
\* loop over the target spikes from spike_num on, then the trailing segment
RECURSIVE WrtFrom(_, _, _, _, _, _, _, _)
WrtFrom(n, a, k, start, v, th, asc, out) ==
  LET ids    == a.spike_train_ids
      spikes == [i \in 1 .. ALen(ids) |-> ids[i - 1]]
      end    == ids[k]
      res    == SegmentAgain(n, v, th, asc, a.stim, start, end, spikes, a.target_spike_exists,
                             IntOf(DeltaTWrtGridRightBeforeSpike(n.dt, ids, a.interpolated_spike_times)[k]))
  IN  IF res.raised THEN [ raised |-> TRUE ]
      ELSE
        LET rec ==
              [ out EXCEPT
                  !.voltage = AssignSlice(@, start, end, res.voltage_out),
                  !.threshold = AssignSlice(@, start, end, res.threshold_out),
                  !.AScurrent_matrix = AssignSlice(@, start, end, res.AScurrents_out),
                  !.per_spike.gridISIFromLastTargSpike_array[k] = res.grid_spike_time,
                  !.per_spike.interpolatedISIFromLastTargSpike_array[k] = res.interpolated_spike_time,
                  !.per_spike.interpolatedTimeArray[k] =
                      RAdd(res.interpolated_spike_time, start * n.dt),
                  !.per_spike.gridTimeArray[k] = RAdd(res.grid_spike_time, start * n.dt),
                  !.per_spike.voltageOfModelAtGridBioSpike_array[k] = RInt(res.voltage_t1),
                  !.per_spike.threshOfModelAtGridBioSpike_array[k] = RInt(res.threshold_t1),
                  !.per_spike.v_ofModelAtInterpolatedBioSpike_array[k] =
                      res.v_ofModelAtInterpolatedBioSpike,
                  !.per_spike.thresh_ofModelAtInterpolatedBioSpike_array[k] =
                      res.thresh_ofModelAtInterpolatedBioSpike ]
        IN  IF k < ALen(ids) - 1
            THEN WrtFrom(n, a, k + 1, end, res.voltage_t0, res.threshold_t0, res.AScurrents_t0, rec)
            ELSE
              LET from == Idx(ids, 0 - 1)
                  tail == SegmentAgain(n, res.voltage_t0, res.threshold_t0, res.AScurrents_t0,
                                       a.stim, from, ALen(a.stim), spikes,
                                       a.target_spike_exists, n.dt)
              IN  IF tail.raised THEN [ raised |-> TRUE ]
                  ELSE [ rec EXCEPT
                           !.voltage = AssignSlice(@, from, ALen(@), tail.voltage_out),
                           !.threshold = AssignSlice(@, from, ALen(@), tail.threshold_out),
                           !.AScurrent_matrix = AssignSlice(@, from, ALen(@), tail.AScurrents_out) ]

\* run_wrt_target_spike_train, lines 252-434, called on neuron n with the arguments a
WrtAgain(n, a) ==
  LET num_spikes == ALen(a.spike_train_ids)
      len == ALen(a.stim)
      out ==
        IF num_spikes = 0
        THEN IF a.target_spike_exists # FALSE THEN [ raised |-> TRUE ]
             ELSE LET res == SegmentAgain(n, a.voltage_t0, a.threshold_t0, a.AScurrents_t0,
                                          a.stim, 0, len - 1, <<>>, a.target_spike_exists, n.dt)
                  IN  IF res.raised THEN [ raised |-> TRUE ]
                      ELSE [ raised |-> FALSE, voltage |-> res.voltage_out,
                             threshold |-> res.threshold_out,
                             AScurrent_matrix |-> res.AScurrents_out,
                             per_spike |-> PerSpike(0, Unassigned) ]
        ELSE IF a.target_spike_exists # TRUE THEN [ raised |-> TRUE ]
             ELSE WrtFrom(n, a, 0, 0, a.voltage_t0, a.threshold_t0, a.AScurrents_t0,
                          [ raised |-> FALSE, voltage |-> Arr(len, NaN),
                            threshold |-> Arr(len, NaN),
                            AScurrent_matrix |-> Arr(len, NanRow(Len(a.AScurrents_t0))),
                            per_spike |-> PerSpike(num_spikes, Unassigned) ])
  IN  IF out.raised \/ ChecksRaise(out, num_spikes) THEN [ raised |-> TRUE ] ELSE out

\* what run_wrt_target_spike_train returns by return or by failure, as the
\* state holds it
WrtOutcome ==
  IF pc = "failed" THEN [ raised |-> TRUE ]
  ELSE [ raised |-> FALSE, voltage |-> voltage, threshold |-> threshold,
         AScurrent_matrix |-> AScurrent_matrix, per_spike |-> per_spike ]


\* C21: no step of run or of run_wrt_target_spike_train changes the stimulus,
\* the caller's initial after-spike currents, the target train or a field of
\* the neuron, and when the call has returned or failed, calling it again on
\* the same neuron with the same arguments gives the same outputs
C21_InputsUnchangedSameOutputs ==
  [][ /\ (call # "none" => args' = args /\ neuron' = neuron)
      /\ (call' = "run" /\ pc' \in {"done", "failed"} => RunOutcome' = RunAgain(neuron', args'))
      /\ (call' = "run_wrt_target_spike_train" /\ pc' \in {"done", "failed"}
            => WrtOutcome' = WrtAgain(neuron', args')) ]_vars

\* a free run with refractory samples has returned after a spike; the state it
\* carried has moved away from the caller's after-spike currents
C21_Witness ==
  /\ call = "run" /\ pc = "done"
  /\ neuron.spike_cut_length > 0
  /\ Len(spike_time_steps) >= 1
  /\ AScurrents_t0 # args.AScurrents_t0
  /\ \E i \in DOMAIN args.stim : args.stim[i] # 0

\* ---------------------------------------------------------------- C22
\* C22: in every call of reset the after-spike currents returned are those of
\* the after-spike-current reset on the pre-reset currents (and the step
\* index), the voltage returned is that of the voltage reset on the pre-reset
\* voltage alone, and the threshold returned is that of the threshold reset on
\* the pre-reset threshold and the voltage the voltage reset has just
\* returned, not the pre-reset voltage
C22_ResetOrderAndArguments ==
  \A i \in DOMAIN reset_log :
    LET e == reset_log[i]
    IN  /\ e.AScurrents_t1 = AScurrent_reset_method(neuron, e.AScurrents_t0, e.t)
        /\ e.voltage_t1 = voltage_reset_method(neuron, e.voltage_t0)
        /\ e.threshold_t1 = threshold_reset_method(neuron, e.threshold_t0, e.voltage_t1)

\* a reset was called where the threshold reset tells the post-reset voltage
\* from the pre-reset voltage, and the other two resets changed their values
C22_Witness ==
  \E i \in DOMAIN reset_log :
    LET e == reset_log[i]
    IN  /\ e.voltage_t1 # e.voltage_t0
        /\ e.AScurrents_t1 # e.AScurrents_t0
        /\ threshold_reset_method(neuron, e.threshold_t0, e.voltage_t1)
             # threshold_reset_method(neuron, e.threshold_t0, e.voltage_t0)

\* ------------------------------------------------- dynamics, called alone
\* a neuron whose threshold follows the voltage and whose after-spike current
\* decays within one step
NeuronTrack ==
  [ El |-> 0, dt |-> 1, tau |-> <<1>>, asc_vector |-> <<1>>, G |-> 0,
    spike_cut_length |-> 0, th_inf |-> 2,
    AScurrent_dynamics_method |-> Method("exp", 0, 0, 0, 0),
    voltage_dynamics_method   |-> Method("linear", 0, 0, 0, 0),
    threshold_dynamics_method |-> Method("adapt", 1, 0, 0, 0),
    AScurrent_reset_method    |-> Method("sum", 0, 0, 0, 0),
    voltage_reset_method      |-> Method("zero", 0, 0, 0, 0),
    threshold_reset_method    |-> Method("th_before", 0, 0, 0, 0) ]

DynamicsInit ==
  /\ neuron \in Neurons \cup {NeuronTrack}
  /\ call = "none"
  /\ pc = "idle"
  /\ args = NoArgs
  /\ time_step = 0
  /\ voltage_t0 = 0 /\ threshold_t0 = 0 /\ AScurrents_t0 = <<>>
  /\ voltage_out = <<>> /\ threshold_out = <<>> /\ AScurrents_out = <<>>
  /\ spike_time_steps = <<>> /\ spike_times = <<>> /\ interpolated_spike_times = <<>>
  /\ interpolated_spike_voltages = <<>> /\ interpolated_spike_thresholds = <<>>
  /\ voltage = <<>> /\ threshold = <<>> /\ AScurrent_matrix = <<>>
  /\ per_spike = NoPerSpike
  /\ segment = "none" /\ spike_num = 0 /\ start_index = 0 /\ end_index = 0
  /\ dyn_log = <<>>
  /\ reset_log = <<>>
  /\ write_count = <<>>

\* dynamics, lines 104-121, called once: the state handed in is kept in
\* voltage_t0, threshold_t0 and AScurrents_t0, the state returned is the one
\* sample of the three traces
CallDynamics ==
  /\ pc = "idle"
  /\ \E v \in InitialVoltages, th \in TargetRunThresholds,
        asc \in TargetRunAScurrents(neuron), inj \in StimVals,
        step \in 0 .. (MaxSteps - 1), spikes \in SUBSET (0 .. (MaxSteps - 1)) :
       \E d \in {Dynamics(neuron, v, th, asc, inj, step, SortedSeq(spikes))} :
         /\ args' = [ voltage_t0 |-> v, threshold_t0 |-> th, AScurrents_t0 |-> asc,
                      inj |-> inj, time_step |-> step, spike_time_steps |-> SortedSeq(spikes) ]
         /\ voltage_t0' = v /\ threshold_t0' = th /\ AScurrents_t0' = asc
         /\ time_step' = step
         /\ spike_time_steps' = SortedSeq(spikes)
         /\ voltage_out' = Arr(1, d.voltage)
         /\ threshold_out' = Arr(1, d.threshold)
         /\ AScurrents_out' = Arr(1, d.AScurrents)
         /\ dyn_log' = <<DynCall(step, v, th, asc, inj, SortedSeq(spikes))>>
  /\ call' = "dynamics"
  /\ pc' = "done"
  /\ UNCHANGED << neuron, spike_times, interpolated_spike_times, interpolated_spike_voltages,
                  interpolated_spike_thresholds, wrtvars, reset_log >>

SpecDynamics == DynamicsInit /\ [][CallDynamics]_vars

\* ---------------------------------------------------------------- C23
\* C23: in one call of dynamics the voltage returned is the voltage update of
\* the prior voltage and the prior after-spike currents, the threshold
\* returned is the threshold update of the prior threshold and the prior
\* voltage, and the currents returned are the update of the prior currents:
\* no method is handed a value another method computed in the same call
C23_DynamicsReadsPriorState ==
  (call = "dynamics" /\ pc = "done") =>
    /\ voltage_out[0] = voltage_dynamics_method(neuron, voltage_t0, AScurrents_t0, args.inj)
    /\ threshold_out[0] = threshold_dynamics_method(neuron, threshold_t0, voltage_t0)
    /\ AScurrents_out[0] =
         AScurrent_dynamics_method(neuron, AScurrents_t0, time_step, spike_time_steps)

\* a call in which the currents and the voltage both change, the voltage
\* update tells the prior currents from the new ones and the threshold update
\* tells the prior voltage from the new one
C23_Witness ==
  /\ call = "dynamics" /\ pc = "done"
  /\ AScurrents_out[0] # AScurrents_t0
  /\ voltage_out[0] # voltage_t0
  /\ voltage_dynamics_method(neuron, voltage_t0, AScurrents_out[0], args.inj) # voltage_out[0]
  /\ threshold_dynamics_method(neuron, threshold_t0, voltage_out[0]) # threshold_out[0]

\* ---------------------------------------------------------------- C25
\* C25: in every call of dynamics made by run or by run_wrt_target_spike_train
\* the spike steps handed over hold no step index greater than the step index
\* of the call
C25_OnlyPastSpikeSteps ==
  \A i \in DOMAIN dyn_log :
    \A k \in DOMAIN dyn_log[i].spike_time_steps :
      dyn_log[i].spike_time_steps[k] <= dyn_log[i].time_step

\* ---------------------------------------------------------------- C26
\* run reads stim[time_step] only as the argument of the dynamics call for
\* time_step (line 190): a sample is read exactly when dynamics is called for
\* its step.

\* C26 (as claimed): with refractory length n > 0, after a spike of a free run
\* at step s dynamics is never called for (and the stimulus never read at) a
\* step of the n samples following s, and the first call for a later step is
\* given the state reset returned at s.
C26_NoIntegrationInWindow ==
  (call = "run" /\ neuron.spike_cut_length > 0) =>
    \A k \in RunSpikes :
      LET e == reset_log[k]
          n == neuron.spike_cut_length
      IN  /\ \A j \in DOMAIN dyn_log :
               dyn_log[j].time_step \notin (e.t + 1) .. (e.t + n)
          /\ \A j \in DOMAIN dyn_log :
               (/\ dyn_log[j].time_step > e.t + n
                /\ \A i \in DOMAIN dyn_log :
                     dyn_log[i].time_step > e.t + n => dyn_log[j].time_step <= dyn_log[i].time_step)
               => /\ dyn_log[j].voltage_t0 = e.voltage_t1
                  /\ dyn_log[j].threshold_t0 = e.threshold_t1
                  /\ dyn_log[j].AScurrents_t0 = e.AScurrents_t1

\* C26 (amended): with refractory length n > 0, dynamics is called for
\* strictly increasing steps; after a spike of a free run at step s it is
\* never called for (and the stimulus never read at) the steps s+1 .. s+n-1,
\* the call that follows the one for s is the call for s+n, it is given the
\* state reset returned at s, and it is made whenever the stimulus has a
\* sample s+n.
C26_SkipsBlankedSteps ==
  (call = "run" /\ neuron.spike_cut_length > 0) =>
    /\ \A i, j \in DOMAIN dyn_log : i < j => dyn_log[i].time_step < dyn_log[j].time_step
    /\ \A k \in RunSpikes :
         LET e == reset_log[k]
             n == neuron.spike_cut_length
         IN  /\ \A j \in DOMAIN dyn_log :
                  dyn_log[j].time_step \notin (e.t + 1) .. (e.t + n - 1)
             /\ \A j \in DOMAIN dyn_log :
                  (dyn_log[j].time_step = e.t /\ j + 1 \in DOMAIN dyn_log) =>
                    /\ dyn_log[j + 1].time_step = e.t + n
                    /\ dyn_log[j + 1].voltage_t0 = e.voltage_t1
                    /\ dyn_log[j + 1].threshold_t0 = e.threshold_t1
                    /\ dyn_log[j + 1].AScurrents_t0 = e.AScurrents_t1
             /\ (pc = "done" /\ e.t + n < ALen(args.stim)) =>
                  \E j \in DOMAIN dyn_log : dyn_log[j].time_step = e.t + n

\* a spike with two refractory samples, followed by a call of dynamics that is
\* given a reset state unlike the state the spike was found in
C26_Witness ==
  /\ call = "run" /\ pc = "done"
  /\ neuron.spike_cut_length = 2
  /\ \E k \in RunSpikes :
       \E j \in DOMAIN dyn_log :
         /\ dyn_log[j].time_step = reset_log[k].t + 2
         /\ dyn_log[j].voltage_t0 # reset_log[k].voltage_t0
         /\ args.stim[reset_log[k].t + 1] # 0

\* ---------------------------------------------------------------- C27
\* the time of target spike k from the grid point right before it (line 301)
TargetDelta(k) ==
  DeltaTWrtGridRightBeforeSpike(neuron.dt, args.spike_train_ids, args.interpolated_spike_times)[k]

\* lines 546-547 at an offset that is a rational: x_last + delta * (x1 - x_last) / dt
ValueAtRationalDelta(dt, x_last, x1, delta) ==
  Rat((x_last * dt * delta.d) + (delta.n * (x1 - x_last)), dt * delta.d)

\* C27: for each target spike k whose segment has returned, the offset handed
\* to run_until_spike is the target's interpolated time minus the grid time
\* (target index - 1)*dt, the model voltage and threshold returned for the
\* interpolated target time are the linear interpolations at that offset
\* between the last sample the segment recorded and the state before the
\* reset, and at an offset of dt they are the voltage and threshold returned
\* for the grid target
C27_OffsetAndValueAtTarget ==
  WrtUnderWay =>
    \A k \in 0 .. (BoundariesDone - 1) :
      LET b       == args.spike_train_ids[k]
          delta   == TargetDelta(k)
          v1      == per_spike.voltageOfModelAtGridBioSpike_array[k].n
          th1     == per_spike.threshOfModelAtGridBioSpike_array[k].n
      IN  (~ NotFinite(v1) /\ ~ NotFinite(th1)) =>
            /\ REq(RInt(IntOf(delta)), delta)
            /\ REq(per_spike.v_ofModelAtInterpolatedBioSpike_array[k],
                   ValueAtRationalDelta(neuron.dt, voltage[b - 1], v1, delta))
            /\ REq(per_spike.thresh_ofModelAtInterpolatedBioSpike_array[k],
                   ValueAtRationalDelta(neuron.dt, threshold[b - 1], th1, delta))
            /\ REq(delta, RInt(neuron.dt)) =>
                 /\ REq(per_spike.v_ofModelAtInterpolatedBioSpike_array[k], RInt(v1))
                 /\ REq(per_spike.thresh_ofModelAtInterpolatedBioSpike_array[k], RInt(th1))

\* ---------------------------------------------------------------- C28
\* the index the segment of target spike k starts at: the previous target
\* index, 0 for the first (lines 362 and 392)
PreviousTarget(k) == IF k = 0 THEN 0 ELSE args.spike_train_ids[k - 1]

\* what run_until_spike returns for the segment of target spike k, run from
\* the previous target index on the state the run held there: the arguments
\* of the call for k = 0, else the state the reset at the previous target gave
SegmentOfTarget(k) ==
  LET ids    == args.spike_train_ids
      spikes == [i \in 1 .. ALen(ids) |-> ids[i - 1]]
      v0     == IF k = 0 THEN args.voltage_t0 ELSE reset_log[k].voltage_t1
      th0    == IF k = 0 THEN args.threshold_t0 ELSE reset_log[k].threshold_t1
      asc0   == IF k = 0 THEN args.AScurrents_t0 ELSE reset_log[k].AScurrents_t1
  IN  SegmentAgain(neuron, v0, th0, asc0, args.stim, PreviousTarget(k), ids[k], spikes,
                   args.target_spike_exists, IntOf(TargetDelta(k)))

\* C28: for each target spike k whose segment has returned, the two ISI
\* outputs are the grid and the interpolated spike time run_until_spike gives
\* for the segment that starts at the previous target index (at step 0 for
\* k = 0), measured from the start of that segment, and the absolute grid and
\* interpolated spike times are the ISI values plus (previous target index)*dt
C28_ISIAndAbsoluteTimes ==
  WrtUnderWay =>
    \A k \in 0 .. (BoundariesDone - 1) :
      LET seg == SegmentOfTarget(k)
          at  == PreviousTarget(k) * neuron.dt
      IN  /\ ~ seg.raised
          /\ per_spike.gridISIFromLastTargSpike_array[k] = seg.grid_spike_time
          /\ per_spike.interpolatedISIFromLastTargSpike_array[k] = seg.interpolated_spike_time
          /\ per_spike.gridTimeArray[k] = RAdd(per_spike.gridISIFromLastTargSpike_array[k], at)
          /\ per_spike.interpolatedTimeArray[k] =
               RAdd(per_spike.interpolatedISIFromLastTargSpike_array[k], at)

\* a run with two targets returns; the model was above its threshold at the
\* end of the segment of the second target, whose absolute times lie after
\* its ISI times
C28_Witness ==
  /\ WrtCall /\ pc = "done" /\ NumTargets = 2
  /\ PreviousTarget(1) > 0
  /\ Gt(per_spike.voltageOfModelAtGridBioSpike_array[1].n,
        per_spike.threshOfModelAtGridBioSpike_array[1].n)
  /\ RFinite(per_spike.gridISIFromLastTargSpike_array[1])
  /\ RLt(per_spike.gridISIFromLastTargSpike_array[1], per_spike.gridTimeArray[1])
  /\ RLt(per_spike.interpolatedISIFromLastTargSpike_array[1], per_spike.interpolatedTimeArray[1])

RunAfterFirstPass == call = "run" /\ pc = "run_loop" /\ dyn_log # <<>>

\* the last pass of the loop found a spike and reset
LastPassReset ==
  /\ reset_log # <<>> /\ dyn_log # <<>>
  /\ reset_log[Len(reset_log)].t = dyn_log[Len(dyn_log)].time_step

\* line 215: the denominator of the interpolated spike time of the spike that
\* reset_log[k] records
InterpolationDenominator(k) ==
  LET e == reset_log[k]
      c == DynCallAt(e.t)
  IN  Add(Sub(e.voltage_t0, e.threshold_t0), Sub(c.threshold_t0, c.voltage_t0))

\* the spikes a free run found in a pass of its loop after the first
LaterSpikes ==
  IF call = "run"
  THEN {k \in DOMAIN reset_log : DynCallAt(reset_log[k].t) # dyn_log[1]}
  ELSE {}

\* C30: after every pass of the loop of a free run the carried voltage is at
\* most the carried threshold, and below it when the pass reset; the
\* interpolation denominator of every spike found after the first pass is
\* above zero
C30_CarriedAtMostThreshold ==
  /\ RunAfterFirstPass =>
       /\ Lt(voltage_t0, threshold_t0) \/ (voltage_t0 = threshold_t0 /\ ~ IsNan(voltage_t0))
       /\ LastPassReset => Lt(voltage_t0, threshold_t0)
  /\ \A k \in LaterSpikes : Gt(InterpolationDenominator(k), 0)

TrainInsideAndIncreasing ==
  LET ids == args.spike_train_ids
  IN  /\ ids[0] > 0
      /\ Idx(ids, 0 - 1) < ALen(args.stim)
      /\ \A k \in DOMAIN ids : k > 0 => ids[k - 1] < ids[k]

\* C32: a target-aligned run with a non-empty target train gets to its output
\* checks and returns only if the target indices increase strictly, the first
\* is greater than 0 and the last is less than len(stim).  A segment without
\* steps (first index 0, a repeated index, last index len(stim)) fails the run
\* once it is entered, and so does a segment of negative length (a decreasing
\* index): the step that follows is the failure, never a return.
C32_ReturnsOnlyOnIncreasingInsideTrain ==
  [][ (WrtCall /\ NumTargets > 0) =>
        /\ (pc' \in {"checks", "done"}) => TrainInsideAndIncreasing
        /\ (pc = "run_until_spike" /\ num_time_steps < 0) => pc' = "failed"
        /\ (pc = "run_until_spike_loop" /\ num_time_steps = 0) => pc' = "failed"
        /\ (pc = "failed") => pc' = "failed" ]_vars

\* a run with two target spikes at the same index has returned from the
\* segment of the first and failed in the empty segment of the second
C32_Witness ==
  /\ WrtCall /\ NumTargets = 2 /\ pc = "failed"
  /\ args.spike_train_ids[0] > 0
  /\ args.spike_train_ids[1] = args.spike_train_ids[0]
  /\ args.spike_train_ids[1] < ALen(args.stim)
  /\ segment = "target" /\ spike_num = 1
  /\ num_time_steps = 0 /\ ALen(threshold_out) = 0

=============================================================================
